---- MODULE Spec2Model ----
(***************************************************************************)
(* Model of the optimization lifecycle engine of lookatthatmongo.          *)
(*                                                                         *)
(*   Spec     the multi-database run (cmd/multi.go): the admission gate,   *)
(*            the per-database workers, the result channel and the report. *)
(*   SpecOpt  the optimizer (mongodb/optimizer): Apply and Rollback of one *)
(*            suggestion against one database, one loop iteration per step.*)
(***************************************************************************)
EXTENDS Integers, Sequences, FiniteSets, TLC

VARIABLES
    \* ---- multi-database run (cmd/multi.go) ----
    databases,      \* the input list of database names (duplicates allowed)
    maxParallel,    \* --parallel
    compareOnly,    \* --compare-only
    enableRollback, \* cfg.EnableRollback
    mainPc,         \* position of RunE: "loop", "acquire", "collect", "done"
    next,           \* index of the loop over databases
    sem,            \* number of tokens held in the sem channel
    wg,             \* sync.WaitGroup counter
    wpc,            \* position of each worker goroutine
    werr,           \* the error processDatabase returned, per worker
    resultsChan,    \* buffered result channel
    chanClosed,     \* close(resultsChan) has happened
    closerPc,       \* the goroutine that waits for wg and closes the channel
    results,        \* the collected result list
    report,         \* what printComparativeReport summarised
    crashed,        \* an unrecovered panic has terminated the process
    wlog,           \* per worker: the calls processDatabase made, in order, with outcome
    whist,          \* per worker: the optimization list of its History
    \* ---- optimizer (mongodb/optimizer) ----
    conn,           \* the optimizer has a connection (o.conn != nil)
    autoName,       \* the server names an index whose spec carries no name
    colls,          \* collections that exist in the database
    indexes,        \* per collection, the set of existing indexes
    sugg,           \* the suggestion of the current call
    phase,          \* "idle", "applying", "applied", "rollingBack", "rolledBack"
    opIdx,          \* index of the operation the loop is at
    ret,            \* the error the last call returned
    cmds,           \* native commands executed, in order (instrumented executor)
    trail,          \* index state after each completed loop iteration
    confirmed,      \* per operation: the post-apply query confirmed the effect
    before,         \* index state when Apply was called
    faults,         \* the executor or a query misbehaved during the calls
    calls,          \* number of Apply calls made so far
    applyErr,       \* the error of Apply the caller holds when it calls Rollback
    queries,        \* existence queries the latest call of Apply has issued
    \* ---- action handler (tracker.ActionHandler) ----
    handler,        \* its configuration: optimizer set, storage set, history set, threshold
    act,            \* the call at hand: position, caller, action type, suggestion,
                    \* improvement, and the suggestion the worker had applied
    aResult,        \* what ExecuteAction returned: the ActionResult and the error
    aCalls,         \* calls made on the optimizer, in order, with their suggestion
    aSaves,         \* records handed to storage.SaveOptimizationRecord, in order
    \* ---- measurement (tracker.Measurement) ----
    measurement,    \* its configuration: storage set, action handler set
    mHistory,       \* its history: set or nil, before-report, after-report, optimizations
    mPc,            \* position of the call: "ready", "measured", "returned", "panicked"
    mCaller,        \* the method called: "Measure" or "MeasureAndStore"
    mRet,           \* the error returned
    mCalls,         \* calls made, in order: Generate, Save, ProcessMeasurement, AddOptimization
    \* ---- history (tracker.History) ----
    history,        \* its fields: report, afterReport, optimizations
    initial,        \* the list NewHistory was given (WithOptimizations)
    added,          \* the arguments of the AddOptimization calls, in call order
    \* ---- validation (MongoOptimizer.Validate) ----
    vSugg,          \* the suggestion: problem metrics and validation steps
    vPc,            \* "ready", "validated"
    vResult,        \* the ValidationResult returned
    \* ---- record store (storage.FileStorage, storage.S3Storage) ----
    store,          \* its kind and its files or objects: key -> JSON document
    sSaved,         \* the successful saves, in order: the record given, the record stored
    sClock,         \* the last reading of time.Now
    sUuids          \* number of IDs uuid.New has generated

runVars == <<databases, maxParallel, compareOnly, enableRollback, mainPc, next,
             sem, wg, wpc, werr, resultsChan, chanClosed, closerPc, results,
             report, crashed, wlog, whist>>

optVars == <<conn, autoName, colls, indexes, sugg, phase, opIdx, ret, cmds,
             trail, confirmed, before, faults, calls, applyErr, queries>>

actVars == <<handler, act, aResult, aCalls, aSaves>>

msrVars == <<measurement, mHistory, mPc, mCaller, mRet, mCalls>>

histVars == <<history, initial, added>>

valVars == <<vSugg, vPc, vResult>>

stoVars == <<store, sSaved, sClock, sUuids>>

vars == <<runVars, optVars, actVars, msrVars, histVars, valVars, stoVars>>

\* what the actions of one part leave alone: the variables of the other parts
otherThanRun == <<optVars, actVars, msrVars, histVars, valVars, stoVars>>
otherThanOpt == <<runVars, actVars, msrVars, histVars, valVars, stoVars>>
otherThanAct == <<runVars, optVars, msrVars, histVars, valVars, stoVars>>
otherThanMsr == <<runVars, optVars, actVars, histVars, valVars, stoVars>>
otherThanHist == <<runVars, optVars, actVars, msrVars, valVars, stoVars>>
otherThanVal == <<runVars, optVars, actVars, msrVars, histVars, stoVars>>
otherThanSto == <<runVars, optVars, actVars, msrVars, histVars, valVars>>

(***************************************************************************)
(* Bounds                                                                  *)
(***************************************************************************)
MaxDatabases == 2
MaxParallel == 2
MaxOps == 2
MaxInitIndexes == 1
MaxCalls == 2
MaxMetrics == 2
MaxHistory == 2
MaxAdds == 4            \* AddOptimization calls on one History
MaxInitial == 1         \* suggestions NewHistory is given
MaxProblemMetrics == 2  \* metrics of a suggestion's problem
MaxSteps == 2           \* validation steps of a suggestion
MaxSaves == 3           \* saves on one record store
MaxGivenId == 2         \* IDs a caller gives its records

DbNames == {"db1", "db2"}

RECURSIVE SeqsUpTo(_, _)
SeqsUpTo(S, n) ==
    IF n = 0 THEN {<<>>}
    ELSE LET shorter == SeqsUpTo(S, n - 1)
         IN shorter \cup {Append(s, x) : s \in shorter, x \in S}

(***************************************************************************)
(* The multi-database run                                                  *)
(***************************************************************************)
N == Len(databases)
Workers == 1..N

\* sem <- struct{}{} on a channel of capacity cap holding held tokens
SemFreeOffByOne(held, cap) == held <= cap
SemFree(held, cap) == held < cap

\* Result{DatabaseName, Success, Error}; worker is the position in the input
\* list the goroutine was started for
Result(i, name, err) ==
    [worker |-> i, db |-> name, success |-> (err = "nil"), error |-> err]

\* resultsChan <- result
SendSkipFailed(ch, r) == IF r.success THEN Append(ch, r) ELSE ch
Send(ch, r) == Append(ch, r)

\* processDatabase returned err: the goroutine goes on to emit its result
Return(i, err) ==
    /\ wpc' = [wpc EXCEPT ![i] = "send"]
    /\ werr' = [werr EXCEPT ![i] = err]

\* an unrecovered panic in a goroutine ends the whole process
Panic(i) ==
    /\ wpc' = [wpc EXCEPT ![i] = "panicked"]
    /\ crashed' = TRUE
    /\ UNCHANGED werr

Goto(i, pc) ==
    /\ wpc' = [wpc EXCEPT ![i] = pc]
    /\ UNCHANGED werr

RunInit ==
    /\ databases \in SeqsUpTo(DbNames, MaxDatabases)
    /\ maxParallel \in 0..MaxParallel
    /\ compareOnly \in BOOLEAN
    /\ enableRollback \in BOOLEAN
    /\ mainPc = "loop"
    /\ next = 1
    /\ sem = 0
    /\ wg = 0
    /\ wpc = [i \in 1..Len(databases) |-> "idle"]
    /\ werr = [i \in 1..Len(databases) |-> "nil"]
    /\ resultsChan = <<>>
    /\ chanClosed = FALSE
    /\ closerPc = "notStarted"
    /\ results = <<>>
    /\ report = [total |-> 0, successes |-> 0, failures |-> 0]
    /\ crashed = FALSE
    /\ wlog = [i \in 1..Len(databases) |-> <<>>]
    /\ whist = [i \in 1..Len(databases) |-> <<>>]

\* for _, dbName := range databases { wg.Add(1) ...
MWgAdd ==
    /\ ~crashed /\ mainPc = "loop" /\ next <= N
    /\ wg' = wg + 1
    /\ mainPc' = "acquire"
    /\ UNCHANGED <<databases, maxParallel, compareOnly, enableRollback, next, sem,
                   wpc, werr, resultsChan, chanClosed, closerPc, results, report,
                   crashed,
                   wlog, whist, otherThanRun>>

\* ... sem <- struct{}{}; go func(...) }
MAcquire ==
    /\ ~crashed /\ mainPc = "acquire"
    /\ SemFree(sem, maxParallel)
    /\ sem' = sem + 1
    /\ wpc' = [wpc EXCEPT ![next] = "collect"]
    /\ next' = next + 1
    /\ mainPc' = "loop"
    /\ UNCHANGED <<databases, maxParallel, compareOnly, enableRollback, wg, werr,
                   resultsChan, chanClosed, closerPc, results, report, crashed,
                   wlog, whist, otherThanRun>>

\* the loop is over: go func() { wg.Wait(); close(resultsChan) }()
MStartCloser ==
    /\ ~crashed /\ mainPc = "loop" /\ next > N
    /\ closerPc' = "waiting"
    /\ mainPc' = "collect"
    /\ UNCHANGED <<databases, maxParallel, compareOnly, enableRollback, next, sem,
                   wg, wpc, werr, resultsChan, chanClosed, results, report, crashed,
                   wlog, whist, otherThanRun>>

Closer ==
    /\ ~crashed /\ closerPc = "waiting" /\ wg = 0
    /\ chanClosed' = TRUE
    /\ closerPc' = "closed"
    /\ UNCHANGED <<databases, maxParallel, compareOnly, enableRollback, mainPc,
                   next, sem, wg, wpc, werr, resultsChan, results, report, crashed,
                   wlog, whist, otherThanRun>>

\* for result := range resultsChan { results = append(results, result) }
MReceive ==
    /\ ~crashed /\ mainPc = "collect" /\ resultsChan # <<>>
    /\ results' = Append(results, Head(resultsChan))
    /\ resultsChan' = Tail(resultsChan)
    /\ UNCHANGED <<databases, maxParallel, compareOnly, enableRollback, mainPc,
                   next, sem, wg, wpc, werr, chanClosed, closerPc, report, crashed,
                   wlog, whist, otherThanRun>>

\* printComparativeReport
Summary(rs) ==
    [total |-> Len(rs),
     successes |-> Cardinality({k \in 1..Len(rs) : rs[k].success}),
     failures |-> Cardinality({k \in 1..Len(rs) : ~rs[k].success})]

\* the range ends on the closed, drained channel; the report is printed
MReport ==
    /\ ~crashed /\ mainPc = "collect" /\ resultsChan = <<>> /\ chanClosed
    /\ report' = Summary(results)
    /\ mainPc' = "done"
    /\ UNCHANGED <<databases, maxParallel, compareOnly, enableRollback, next, sem,
                   wg, wpc, werr, resultsChan, chanClosed, closerPc, results, crashed,
                   wlog, whist, otherThanRun>>

workerFrame == <<databases, maxParallel, compareOnly, enableRollback, mainPc, next,
                 sem, wg, resultsChan, chanClosed, closerPc, results, report>>

\* one call of processDatabase: the callee, its argument, how it came back
Call(step, arg, out) == <<step, arg, out>>
Outcome(ok) == IF ok THEN "ok" ELSE "err"
Log(i, entries) == wlog' = [wlog EXCEPT ![i] = @ \o entries]

\* the step processDatabase goes on to once a step has succeeded
StepAfterSwapped(pc) ==
    CASE pc = "collect" -> "generate"
      [] pc = "generate" -> "collectAfter"
      [] pc = "collectAfter" -> "apply"
      [] pc = "apply" -> "measure"
StepAfter(pc) ==
    CASE pc = "collect" -> "generate"
      [] pc = "generate" -> "apply"
      [] pc = "apply" -> "collectAfter"
      [] pc = "collectAfter" -> "measure"

\* the record of the compare-only branch: the before-report alone
ComparisonRecordApplied ==
    [before |-> TRUE, after |-> FALSE, suggestion |-> FALSE, applied |-> TRUE]
ComparisonRecord ==
    [before |-> TRUE, after |-> FALSE, suggestion |-> FALSE, applied |-> FALSE]

\* the error processDatabase returns once Apply has failed and Rollback has
\* come back: "optimization failed and rollback failed: <err> (rollback:
\* <rbErr>)" or "optimization failed but rolled back successfully: <err>"
RollbackErrorCollapsed(ok) == "applyFailedRolledBack"
RollbackError(ok) ==
    IF ok THEN "applyFailedRolledBack" ELSE "applyFailedRollbackFailed"

\* the causes an error of processDatabase carries in its text
Causes(err) ==
    CASE err = "applyFailed" -> {"apply"}
      [] err = "applyFailedRolledBack" -> {"apply"}
      [] err = "applyFailedRollbackFailed" -> {"apply", "rollback"}
      [] err = "nil" -> {}
      [] OTHER -> {err}

\* beforeReport.Collect
WCollectBefore(i) ==
    /\ ~crashed /\ wpc[i] = "collect"
    /\ \E ok \in BOOLEAN :
          /\ Log(i, <<Call("CollectBefore", "", Outcome(ok))>>)
          /\ IF ~ok THEN Return(i, "collect")
             ELSE IF compareOnly THEN Goto(i, "save")
             ELSE Goto(i, StepAfter("collect"))
    /\ UNCHANGED <<workerFrame, crashed, whist, otherThanRun>>

\* compare-only: store.SaveOptimizationRecord, then return
WSaveComparison(i) ==
    /\ ~crashed /\ wpc[i] = "save"
    /\ \E ok \in BOOLEAN :
          /\ Log(i, <<Call("SaveOptimizationRecord", ComparisonRecord, Outcome(ok))>>)
          /\ Return(i, IF ok THEN "nil" ELSE "save")
    /\ UNCHANGED <<workerFrame, crashed, whist, otherThanRun>>

\* NewHistory, NewPrompt, aiconn.Generate, Marshal/Unmarshal, AddOptimization;
\* a failing NewPrompt, Generate, Marshal or Unmarshal returns an error.
\* Generate indexes chat.Choices[0], and AddOptimization dereferences the
\* suggestion: an empty choice list or a JSON null reply panics.
WGenerate(i) ==
    /\ ~crashed /\ wpc[i] = "generate"
    /\ \E out \in {"ok", "err", "panic"} :
          CASE out = "ok" ->
                 /\ Goto(i, StepAfter("generate"))
                 /\ Log(i, <<Call("NewHistory", "", "ok"), Call("Generate", "", "ok"),
                             Call("AddOptimization", "typedSuggestion", "ok")>>)
                 /\ whist' = [whist EXCEPT ![i] = Append(@, "typedSuggestion")]
                 /\ UNCHANGED crashed
            [] out = "panic" ->
                 /\ Panic(i)
                 /\ Log(i, <<Call("NewHistory", "", "ok"), Call("Generate", "", "panic")>>)
                 /\ UNCHANGED whist
            [] OTHER ->
                 /\ Return(i, "generate")
                 /\ Log(i, <<Call("NewHistory", "", "ok"), Call("Generate", "", "err")>>)
                 /\ UNCHANGED <<crashed, whist>>
    /\ UNCHANGED <<workerFrame, otherThanRun>>

\* opt.Apply
WApply(i) ==
    /\ ~crashed /\ wpc[i] = "apply"
    /\ \E ok \in BOOLEAN :
          /\ Log(i, <<Call("Apply", "typedSuggestion", Outcome(ok))>>)
          /\ IF ok THEN Goto(i, StepAfter("apply"))
             ELSE IF enableRollback THEN Goto(i, "rollback")
             ELSE Return(i, "applyFailed")
    /\ UNCHANGED <<workerFrame, crashed, whist, otherThanRun>>

\* opt.Rollback after a failed Apply
WRollback(i) ==
    /\ ~crashed /\ wpc[i] = "rollback"
    /\ \E ok \in BOOLEAN :
          /\ Log(i, <<Call("Rollback", "typedSuggestion", Outcome(ok))>>)
          /\ Return(i, RollbackError(ok))
    /\ UNCHANGED <<workerFrame, crashed, whist, otherThanRun>>

\* afterReport.Collect, history.SetAfterReport
WCollectAfter(i) ==
    /\ ~crashed /\ wpc[i] = "collectAfter"
    /\ \E ok \in BOOLEAN :
          IF ok
          THEN /\ Goto(i, StepAfter("collectAfter"))
               /\ Log(i, <<Call("CollectAfter", "", "ok"),
                           Call("SetAfterReport", "", "ok")>>)
          ELSE /\ Return(i, "collectAfter")
               /\ Log(i, <<Call("CollectAfter", "", "err")>>)
    /\ UNCHANGED <<workerFrame, crashed, whist, otherThanRun>>

\* measurement.MeasureAndStore: Measure calls aiConn.Generate, whose value is
\* what json.Unmarshal put into an `any`; the unchecked type assertion
\* response.(*ai.OptimizationSuggestion) on it panics.
WMeasure(i) ==
    /\ ~crashed /\ wpc[i] = "measure"
    /\ \E generated \in BOOLEAN :
          IF generated
          THEN /\ Panic(i)
               /\ Log(i, <<Call("MeasureAndStore", "", "panic")>>)
          ELSE /\ Return(i, "measure")
               /\ Log(i, <<Call("MeasureAndStore", "", "err")>>)
               /\ UNCHANGED crashed
    /\ UNCHANGED <<workerFrame, whist, otherThanRun>>

\* resultsChan <- result
WSend(i) ==
    /\ ~crashed /\ wpc[i] = "send"
    /\ resultsChan' = Send(resultsChan, Result(i, databases[i], werr[i]))
    /\ wpc' = [wpc EXCEPT ![i] = "release"]
    /\ werr' = [werr EXCEPT ![i] = "nil"]
    /\ UNCHANGED <<databases, maxParallel, compareOnly, enableRollback, mainPc,
                   next, sem, wg, chanClosed, closerPc, results, report, crashed,
                   wlog, whist, otherThanRun>>

\* <-sem on a channel holding held tokens
ReleasedNever(held) == held
Released(held) == held - 1

\* defer func() { <-sem }()
WRelease(i) ==
    /\ ~crashed /\ wpc[i] = "release"
    /\ sem' = Released(sem)
    /\ Goto(i, "wgDone")
    /\ UNCHANGED <<databases, maxParallel, compareOnly, enableRollback, mainPc,
                   next, wg, resultsChan, chanClosed, closerPc, results, report,
                   crashed,
                   wlog, whist, otherThanRun>>

\* defer wg.Done()
WDone(i) ==
    /\ ~crashed /\ wpc[i] = "wgDone"
    /\ wg' = wg - 1
    /\ Goto(i, "exited")
    /\ UNCHANGED <<databases, maxParallel, compareOnly, enableRollback, mainPc,
                   next, sem, resultsChan, chanClosed, closerPc, results, report,
                   crashed,
                   wlog, whist, otherThanRun>>

(***************************************************************************)
(* The optimizer: data                                                     *)
(***************************************************************************)
CollNames == {"c1", "c2"}

\* ai.IndexOperation: keys "" is the empty key map; optName is Options.Name;
\* opts stands for the recorded options (unique, sparse, expireAfterSeconds)
Op(a, c, k, n, on, o) ==
    [action |-> a, collection |-> c, keys |-> k, name |-> n, optName |-> on,
     opts |-> o]

OpPool ==
    {Op("createIndex", "c1", "ka", n, on, "none") : n \in {"", "x"}, on \in {"", "y"}}
    \cup {Op("createIndex", "c1", "ka", "x", "", "unique"),
          Op("createIndex", "c1", "", "x", "", "none"),
          Op("createIndex", "c2", "ka", "x", "", "none"),
          Op("dropIndex", "c1", "ka", "x", "", "none"),
          Op("dropIndex", "c1", "ka", "x", "", "unique"),
          Op("dropIndex", "c1", "", "x", "", "none"),
          Op("dropIndex", "c1", "ka", "", "", "none"),
          Op("collMod", "c1", "", "x", "", "none")}

Categories == {"index", "query", "schema", "configuration", "other"}

\* ai.OptimizationSuggestion, as far as the optimizer reads it
Suggestions == [category : Categories, ops : SeqsUpTo(OpPool, MaxOps)]

\* an index of the server
Index(n, k, o) == [name |-> n, keys |-> k, opts |-> o]

InitIndexRecs ==
    {Index(n, k, "none") : n \in {"x", "y", "ka_1"}, k \in {"ka", "kb"}}
    \cup {Index("x", "ka", "unique")}

\* the server keeps index names and key patterns unique per collection
ValidIndexSet(S) ==
    \A a, b \in S : a # b => a.name # b.name /\ a.keys # b.keys

InitIndexSets ==
    {S \in SUBSET InitIndexRecs : Cardinality(S) <= MaxInitIndexes /\ ValidIndexSet(S)}

NoCmd == [call |-> "none", verb |-> "none", coll |-> "", name |-> "", keys |-> "",
          opts |-> "none", op |-> 0, existing |-> {}]

\* error values: kind "nil" is no error, "error" a plain fmt.Errorf, the others
\* an OptimizerError of that ErrorType
NoErr == [kind |-> "nil", msg |-> "", op |-> 0, cmd |-> NoCmd]
Err(kind, msg, k, cmd) == [kind |-> kind, msg |-> msg, op |-> k, cmd |-> cmd]

(***************************************************************************)
(* The native command executor and the existence queries (the server)      *)
(***************************************************************************)
IndexNamed(idx, coll, n) == \E x \in idx[coll] : x.name = n

\* the index names of a collection (what Indexes().List shows)
IndexNames(idx, coll) == {x.name : x \in idx[coll]}

\* the name a server that names indexes itself derives from the key pattern
AutoNameOf(k) == IF k = "ka" THEN "ka_1" ELSE "kb_1"

\* database.RunCommand(createIndexes / dropIndexes): what the server does with a
\* command it receives; ok = FALSE is a command error, which changes nothing
ServerExec(cmd, idx, cs, auto) ==
    LET same == [ok |-> FALSE, idx |-> idx, colls |-> cs] IN
    IF cmd.verb = "createIndexes" THEN
        IF cmd.name = "" /\ ~auto THEN same
        ELSE LET n == IF cmd.name = "" THEN AutoNameOf(cmd.keys) ELSE cmd.name
                 new == Index(n, cmd.keys, cmd.opts)
             IN IF new \in idx[cmd.coll]
                THEN [ok |-> TRUE, idx |-> idx, colls |-> cs]
                ELSE IF \E x \in idx[cmd.coll] : x.name = n \/ x.keys = cmd.keys
                THEN same
                ELSE [ok |-> TRUE,
                      idx |-> [idx EXCEPT ![cmd.coll] = @ \cup {new}],
                      colls |-> cs \cup {cmd.coll}]
    ELSE IF cmd.coll \in cs /\ IndexNamed(idx, cmd.coll, cmd.name)
         THEN [ok |-> TRUE,
               idx |-> [idx EXCEPT ![cmd.coll] = {x \in @ : x.name # cmd.name}],
               colls |-> cs]
         ELSE same

\* one RunCommand call: exec = "ok" the server acts on the command, "neterr" the
\* call fails without effect, "noop" the call reports success without effect
RunCommand(cmd, idx, cs, auto, exec) ==
    CASE exec = "neterr" -> [ok |-> FALSE, idx |-> idx, colls |-> cs]
      [] exec = "noop" -> [ok |-> TRUE, idx |-> idx, colls |-> cs]
      [] OTHER -> ServerExec(cmd, idx, cs, auto)

ExecOutcomes == {"ok", "neterr", "noop"}
QueryOutcomes == {"ok", "err"}

(***************************************************************************)
(* MongoOptimizer.applyIndexOptimization: one iteration of the loop        *)
(***************************************************************************)
\* checkCollectionExists, given a ListCollectionNames that answered
CheckCollectionSkipped(cs, coll) == TRUE
CheckCollectionExists(cs, coll) == coll \in cs

\* indexNameForCheck
ResolvedNameIgnoringOptions(op) ==
    IF op.action \in {"createIndex", "dropIndex"} THEN op.name ELSE ""
ResolvedName(op) ==
    IF op.action = "createIndex"
    THEN IF op.optName # "" THEN op.optName ELSE op.name
    ELSE IF op.action = "dropIndex" THEN op.name ELSE ""

ApplyCmd(op, k, idx) ==
    LET n == ResolvedName(op) IN
    [call |-> "apply",
     verb |-> IF op.action = "createIndex" THEN "createIndexes" ELSE "dropIndexes",
     coll |-> op.collection,
     name |-> n,
     keys |-> IF op.action = "createIndex" THEN op.keys ELSE "",
     opts |-> IF op.action = "createIndex" THEN op.opts ELSE "none",
     op |-> k,
     existing |-> IndexNames(idx, op.collection)]

\* the outcome of one iteration: the error it returns (NoErr: go on), the
\* database afterwards, the command it issued, whether the post-apply query
\* confirmed the effect, and whether the executor or a query misbehaved
StepResult(e, idx, cs, issued, conf, fault) ==
    [err |-> e, idx |-> idx, colls |-> cs, cmds |-> issued, confirmed |-> conf,
     fault |-> fault]

ApplyOp(op, k, idx, cs, auto, collQ, preQ, exec, postQ) ==
    LET n == ResolvedName(op)
        cmd == ApplyCmd(op, k, idx)
        fail(msg, fault) == StepResult(Err("error", msg, k, NoCmd), idx, cs, <<>>,
                                       FALSE, fault)
    IN
    \* --- pre-apply validation ---
    IF collQ = "err" THEN fail("collectionCheckFailed", TRUE)
    ELSE IF ~CheckCollectionExists(cs, op.collection) THEN fail("collectionMissing", FALSE)
    ELSE IF n # "" /\ preQ = "err" THEN fail("indexCheckFailed", TRUE)
    ELSE IF n # "" /\ op.action = "createIndex" /\ IndexNamed(idx, op.collection, n)
         THEN fail("indexExists", FALSE)
    ELSE IF n # "" /\ op.action = "dropIndex" /\ ~IndexNamed(idx, op.collection, n)
         THEN fail("indexMissing", FALSE)
    ELSE IF n = "" /\ op.action = "dropIndex" THEN fail("nameRequired", FALSE)
    \* --- build command ---
    ELSE IF op.action = "createIndex" /\ (op.collection = "" \/ op.keys = "")
         THEN fail("invalidCreate", FALSE)
    ELSE IF op.action = "dropIndex" /\ (op.collection = "" \/ n = "")
         THEN fail("invalidDrop", FALSE)
    ELSE IF op.action \notin {"createIndex", "dropIndex"}
         THEN fail("unsupportedAction", FALSE)
    ELSE
    \* --- execute ---
    LET r == RunCommand(cmd, idx, cs, auto, exec)
        execFault == exec # "ok"
    IN
    IF ~r.ok
    THEN StepResult(Err("error", "execFailed", k, cmd), r.idx, r.colls, <<cmd>>,
                    FALSE, execFault)
    \* --- post-apply verification ---
    ELSE IF n = ""
    THEN StepResult(NoErr, r.idx, r.colls, <<cmd>>, FALSE, execFault)
    ELSE
    LET foundAfter == postQ = "ok" /\ IndexNamed(r.idx, op.collection, n)
        fault == execFault \/ postQ = "err"
    IN
    IF op.action = "createIndex" /\ ~foundAfter
    THEN StepResult(Err("error", "verifyFailed", k, NoCmd), r.idx, r.colls, <<cmd>>,
                    FALSE, fault)
    ELSE IF op.action = "dropIndex" /\ foundAfter
    THEN StepResult(Err("error", "verifyFailed", k, NoCmd), r.idx, r.colls, <<cmd>>,
                    FALSE, fault)
    ELSE StepResult(NoErr, r.idx, r.colls, <<cmd>>, postQ = "ok", fault)

\* the existence queries one iteration issues: checkCollectionExists, then
\* verifyIndexExists for a named index before the command and after it
ApplyQueries(op, cs, collQ, r) ==
    IF collQ = "err" \/ ~CheckCollectionExists(cs, op.collection) THEN 1
    ELSE IF ResolvedName(op) = "" THEN 1
    ELSE IF r.cmds # <<>> /\ r.err.msg # "execFailed" THEN 3
    ELSE 2

(***************************************************************************)
(* MongoOptimizer.Rollback: one iteration of the loop                      *)
(***************************************************************************)
RollbackCmd(op, k, idx) ==
    IF op.action = "createIndex"
    THEN [call |-> "rollback", verb |-> "dropIndexes", coll |-> op.collection,
          name |-> ResolvedName(op), keys |-> "", opts |-> "none", op |-> k,
          existing |-> IndexNames(idx, op.collection)]
    ELSE [call |-> "rollback", verb |-> "createIndexes", coll |-> op.collection,
          name |-> op.name, keys |-> op.keys, opts |-> op.opts, op |-> k,
          existing |-> IndexNames(idx, op.collection)]

\* "default: ... continue": an operation Rollback has no inverse for
SkippedAsFailure(k, idx, cs) ==
    StepResult(Err("rollback", "unsupportedAction", k, NoCmd), idx, cs, <<>>,
               FALSE, FALSE)
Skipped(k, idx, cs) == StepResult(NoErr, idx, cs, <<>>, FALSE, FALSE)

RollbackOp(op, k, idx, cs, auto, exec) ==
    LET cmd == RollbackCmd(op, k, idx)
        fail(msg) == StepResult(Err("rollback", msg, k, NoCmd), idx, cs, <<>>,
                                FALSE, FALSE)
    IN
    IF op.action = "createIndex" /\ (op.collection = "" \/ ResolvedName(op) = "")
    THEN fail("cannotDetermineCreate")
    ELSE IF op.action = "dropIndex" /\ (op.collection = "" \/ op.keys = "")
    THEN fail("cannotDetermineDrop")
    ELSE IF op.action \notin {"createIndex", "dropIndex"}
    THEN Skipped(k, idx, cs)
    ELSE
    LET r == RunCommand(cmd, idx, cs, auto, exec) IN
    IF ~r.ok
    THEN StepResult(Err("rollback", "execFailed", k, cmd), r.idx, r.colls, <<cmd>>,
                    FALSE, exec # "ok")
    ELSE StepResult(NoErr, r.idx, r.colls, <<cmd>>, FALSE, exec # "ok")

(***************************************************************************)
(* The optimizer: calls                                                    *)
(***************************************************************************)
Entry(done, e) == [done |-> done, err |-> e]

ApplyEntryAnyCategory(hasConn, s) ==
    IF ~hasConn THEN Entry(TRUE, Err("connection", "connectionNil", 0, NoCmd))
    ELSE IF Len(s.ops) = 0 THEN Entry(TRUE, NoErr) ELSE Entry(FALSE, NoErr)

\* MongoOptimizer.Apply up to the loop of applyIndexOptimization
ApplyEntry(hasConn, s) ==
    IF ~hasConn THEN Entry(TRUE, Err("connection", "connectionNil", 0, NoCmd))
    ELSE IF s.category = "index"
         THEN IF Len(s.ops) = 0 THEN Entry(TRUE, NoErr) ELSE Entry(FALSE, NoErr)
    ELSE IF s.category \in {"query", "schema", "configuration"}
         THEN Entry(TRUE, Err("error", "notImplemented", 0, NoCmd))
    ELSE Entry(TRUE, Err("unknown", "unknownCategory", 0, NoCmd))

\* MongoOptimizer.Rollback up to its loop (the suggestion is never nil here)
RollbackEntryNoPlan(hasConn, s) ==
    IF ~hasConn THEN Entry(TRUE, Err("connection", "connectionNil", 0, NoCmd))
    ELSE IF Len(s.ops) = 0 THEN Entry(TRUE, Err("rollback", "noRollbackPlan", 0, NoCmd))
    ELSE Entry(FALSE, NoErr)
RollbackEntry(hasConn, s) ==
    IF ~hasConn THEN Entry(TRUE, Err("connection", "connectionNil", 0, NoCmd))
    ELSE IF Len(s.ops) = 0 THEN Entry(TRUE, NoErr)
    ELSE Entry(FALSE, NoErr)

\* "if err != nil { return ... }": the loop is left on the first error
StopsOnlyOnExecFailure(e) == e.kind # "nil" /\ e.msg = "execFailed"
Stops(e) == e.kind # "nil"

\* the operation the k-th iteration of Rollback's loop handles, of n
RollbackReverseOrder(k, n) == n + 1 - k
RollbackOrder(k, n) == k

\* NewOptimizer(WithConnection(conn), WithMonitor(monitor)) in front of a
\* database with collection c1, some indexes, and a suggestion to handle
OptInit ==
    /\ conn = TRUE
    /\ autoName \in BOOLEAN
    /\ colls = {"c1"}
    /\ \E S \in InitIndexSets : indexes = [c \in CollNames |-> IF c = "c1" THEN S ELSE {}]
    /\ sugg \in Suggestions
    /\ phase = "idle"
    /\ opIdx = 0
    /\ ret = NoErr
    /\ cmds = <<>>
    /\ trail = <<>>
    /\ confirmed = <<>>
    /\ before = indexes
    /\ faults = FALSE
    /\ calls = 0
    /\ applyErr = NoErr
    /\ queries = 0

\* Apply(ctx, databaseName, suggestion) is called: the first time, or again
\* after an earlier call (and its rollback) has returned
ApplyCall ==
    /\ phase \in {"idle", "applied", "rolledBack"}
    /\ calls < MaxCalls
    /\ calls' = calls + 1
    /\ LET e == ApplyEntry(conn, sugg) IN
          /\ phase' = IF e.done THEN "applied" ELSE "applying"
          /\ ret' = e.err
    /\ opIdx' = 1
    /\ before' = indexes
    /\ trail' = <<indexes>>
    /\ cmds' = <<>>
    /\ confirmed' = <<>>
    /\ applyErr' = NoErr
    /\ queries' = 0
    /\ UNCHANGED <<conn, autoName, colls, indexes, sugg, faults, otherThanOpt>>

\* one iteration of "for _, op := range suggestion.Solution.Operations"
ApplyStep ==
    /\ phase = "applying"
    /\ \E collQ \in QueryOutcomes, preQ \in QueryOutcomes,
          exec \in ExecOutcomes, postQ \in QueryOutcomes :
          LET r == ApplyOp(sugg.ops[opIdx], opIdx, indexes, colls, autoName,
                           collQ, preQ, exec, postQ)
          IN
          /\ indexes' = r.idx
          /\ colls' = r.colls
          /\ cmds' = cmds \o r.cmds
          /\ faults' = (faults \/ r.fault)
          /\ queries' = queries + ApplyQueries(sugg.ops[opIdx], colls, collQ, r)
          /\ IF Stops(r.err)
             THEN /\ ret' = r.err
                  /\ phase' = "applied"
                  /\ UNCHANGED <<opIdx, trail, confirmed>>
             ELSE /\ trail' = Append(trail, r.idx)
                  /\ confirmed' = Append(confirmed, r.confirmed)
                  /\ IF opIdx >= Len(sugg.ops)
                     THEN phase' = "applied" /\ UNCHANGED <<opIdx, ret>>
                     ELSE opIdx' = opIdx + 1 /\ UNCHANGED <<phase, ret>>
    /\ UNCHANGED <<conn, autoName, sugg, before, calls, applyErr, otherThanOpt>>

\* Rollback(ctx, databaseName, suggestion) is called right after Apply returned,
\* whose error the caller keeps
RollbackCall ==
    /\ phase = "applied"
    /\ applyErr' = ret
    /\ LET e == RollbackEntry(conn, sugg) IN
          /\ phase' = IF e.done THEN "rolledBack" ELSE "rollingBack"
          /\ ret' = e.err
    /\ opIdx' = 1
    /\ trail' = <<indexes>>
    /\ UNCHANGED <<conn, autoName, colls, indexes, sugg, cmds, confirmed, before,
                   faults, calls, queries, otherThanOpt>>

\* one iteration of Rollback's loop over the operations
RollbackStep ==
    /\ phase = "rollingBack"
    /\ \E exec \in ExecOutcomes :
          LET k == RollbackOrder(opIdx, Len(sugg.ops))
              r == RollbackOp(sugg.ops[k], k, indexes, colls, autoName, exec)
          IN
          /\ indexes' = r.idx
          /\ colls' = r.colls
          /\ cmds' = cmds \o r.cmds
          /\ faults' = (faults \/ r.fault)
          /\ IF Stops(r.err)
             THEN /\ ret' = r.err
                  /\ phase' = "rolledBack"
                  /\ UNCHANGED <<opIdx, trail>>
             ELSE /\ trail' = Append(trail, r.idx)
                  /\ IF opIdx >= Len(sugg.ops)
                     THEN phase' = "rolledBack" /\ UNCHANGED <<opIdx, ret>>
                     ELSE opIdx' = opIdx + 1 /\ UNCHANGED <<phase, ret>>
    /\ UNCHANGED <<conn, autoName, sugg, confirmed, before, calls, applyErr,
                   queries, otherThanOpt>>

(***************************************************************************)
(* The action handler                                                      *)
(***************************************************************************)
ActionNone == "none"
ActionAlert == "alert"
ActionRollback == "rollback"
ActionOptimize == "optimize"
ActionTypes == {ActionNone, ActionAlert, ActionRollback, ActionOptimize}

\* action types a caller can pass: ActionType is a string type
GivenTypes == ActionTypes \cup {"bogus"}

\* NewActionHandler's threshold when WithThreshold is not used
DefaultThreshold == 5

\* improvement percentages and thresholds (float64 values, compared only)
Improvements == {-1, 0, DefaultThreshold - 1, DefaultThreshold}
Thresholds == {-2, 0, DefaultThreshold}

\* suggestion.Problem.Metrics: names that contain "improvement" or
\* "performance" in any letter case, and one that does not
\* metric names, letter by letter
ImprovementPct == <<"I", "m", "p", "r", "o", "v", "e", "m", "e", "n", "t", " ", "%">>
Latency == <<"l", "a", "t", "e", "n", "c", "y">>
PerformanceGain == <<"P", "E", "R", "F", "O", "R", "M", "A", "N", "C", "E", " ", "g", "a", "i", "n">>
QueryPerformance == <<"Q", "u", "e", "r", "y", " ", "P", "e", "r", "f", "o", "r", "m", "a", "n", "c", "e">>
Improvemen == <<"i", "m", "p", "r", "o", "v", "e", "m", "e", "n">>
MetricNames == {ImprovementPct, Latency}
ExtractionNames ==
    {ImprovementPct, Latency, PerformanceGain, QueryPerformance, Improvemen}

\* strings.ToLower
UpperCase == <<"A", "B", "C", "D", "E", "F", "G", "H", "I", "J", "K", "L", "M", "N", "O", "P", "Q", "R", "S", "T", "U", "V", "W", "X", "Y", "Z">>
LowerCase == <<"a", "b", "c", "d", "e", "f", "g", "h", "i", "j", "k", "l", "m", "n", "o", "p", "q", "r", "s", "t", "u", "v", "w", "x", "y", "z">>
Lower(c) ==
    IF \E k \in 1..Len(UpperCase) : UpperCase[k] = c
    THEN LowerCase[CHOOSE k \in 1..Len(UpperCase) : UpperCase[k] = c]
    ELSE c
ToLower(name) == [k \in 1..Len(name) |-> Lower(name[k])]

\* strings.Contains
Contains(name, sub) ==
    \E k \in 0..(Len(name) - Len(sub)) : SubSeq(name, k + 1, k + Len(sub)) = sub

\* the test of getImprovementFromSuggestion on a metric's name
NameMatchesCaseSensitive(name) ==
    \/ Contains(name, <<"i", "m", "p", "r", "o", "v", "e", "m", "e", "n", "t">>)
    \/ Contains(name, <<"p", "e", "r", "f", "o", "r", "m", "a", "n", "c", "e">>)
NameMatches(name) ==
    \/ Contains(ToLower(name), <<"i", "m", "p", "r", "o", "v", "e", "m", "e", "n", "t">>)
    \/ Contains(ToLower(name), <<"p", "e", "r", "f", "o", "r", "m", "a", "n", "c", "e">>)
Metric(name, value) == [name |-> name, value |-> value]
MetricPool == {Metric(n, v) : n \in MetricNames, v \in Improvements}

\* the suggestion the handler works on
ActionSuggestions ==
    [category : {"optimize", "index"}, metrics : SeqsUpTo(MetricPool, MaxMetrics)]

\* getImprovementFromSuggestion: the value of the first matching metric, else 0
GetImprovementFromSuggestion(s) ==
    LET hits == {i \in 1..Len(s.metrics) : NameMatches(s.metrics[i].name)}
    IN IF hits = {} THEN 0
       ELSE s.metrics[CHOOSE i \in hits : \A j \in hits : i <= j].value

\* "improvement < h.threshold"
BelowThresholdInclusive(improvement, threshold) == improvement <= threshold
BelowThreshold(improvement, threshold) == improvement < threshold

\* the if-chain of ProcessMeasurement that picks the action type
SelectAction(improvement, category, threshold) ==
    IF improvement < 0 THEN ActionRollback
    ELSE IF BelowThreshold(improvement, threshold) THEN ActionAlert
    ELSE IF category = "optimize" THEN ActionOptimize
    ELSE ActionNone

Desc(tag, arg) == [tag |-> tag, arg |-> arg]
ActionResult(type, success, desc) == [type |-> type, success |-> success, desc |-> desc]
OptCall(call, s) == [call |-> call, sugg |-> s]
Switched(result, optCalls) == [result |-> result, calls |-> optCalls]

\* ExecuteAction, case ActionRollback
RollbackCaseTwice(hasOpt, s, optOut) ==
    IF hasOpt
    THEN Switched(ActionResult(ActionRollback, optOut = "nil",
                     Desc(IF optOut = "nil" THEN "rollbackCompleted" ELSE "rollbackFailed", "")),
                  <<OptCall("Rollback", s), OptCall("Rollback", s)>>)
    ELSE Switched(ActionResult(ActionRollback, FALSE, Desc("rollbackNoOptimizer", "")), <<>>)
RollbackCase(hasOpt, s, optOut) ==
    IF hasOpt
    THEN Switched(ActionResult(ActionRollback, optOut = "nil",
                     Desc(IF optOut = "nil" THEN "rollbackCompleted" ELSE "rollbackFailed", "")),
                  <<OptCall("Rollback", s)>>)
    ELSE Switched(ActionResult(ActionRollback, FALSE, Desc("rollbackNoOptimizer", "")), <<>>)

\* ExecuteAction, case ActionOptimize
OptimizeCaseIgnoresError(hasOpt, s, optOut) ==
    IF hasOpt
    THEN Switched(ActionResult(ActionOptimize, TRUE, Desc("optimizeApplied", "")),
                  <<OptCall("Apply", s)>>)
    ELSE Switched(ActionResult(ActionOptimize, FALSE, Desc("optimizeNoOptimizer", "")), <<>>)
OptimizeCase(hasOpt, s, optOut) ==
    IF hasOpt
    THEN Switched(ActionResult(ActionOptimize, optOut = "nil",
                     Desc(IF optOut = "nil" THEN "optimizeApplied" ELSE "optimizeFailed", "")),
                  <<OptCall("Apply", s)>>)
    ELSE Switched(ActionResult(ActionOptimize, FALSE, Desc("optimizeNoOptimizer", "")), <<>>)

\* ExecuteAction, cases ActionNone and ActionAlert
PassiveCaseNeedsOptimizer(type, hasOpt) ==
    Switched(ActionResult(type, hasOpt,
                Desc(IF type = ActionNone THEN "noActionRequired" ELSE "alertSent", "")), <<>>)
PassiveCase(type, hasOpt) ==
    Switched(ActionResult(type, TRUE,
                Desc(IF type = ActionNone THEN "noActionRequired" ELSE "alertSent", "")), <<>>)

\* ExecuteAction, default case
DefaultCaseKeepsType(type) ==
    Switched(ActionResult(type, FALSE, Desc("unknownActionType", type)), <<>>)
DefaultCase(type) ==
    Switched(ActionResult("unknown", FALSE, Desc("unknownActionType", type)), <<>>)

\* the switch of ExecuteAction
Switch(type, hasOpt, s, optOut) ==
    IF type \in {ActionNone, ActionAlert} THEN PassiveCase(type, hasOpt)
    ELSE IF type = ActionRollback THEN RollbackCase(hasOpt, s, optOut)
    ELSE IF type = ActionOptimize THEN OptimizeCase(hasOpt, s, optOut)
    ELSE DefaultCase(type)

SaveRecordRollbackByOutcome(type, s, improvement, result) ==
    [sugg |-> s, applied |-> TRUE, success |-> result.success,
     improvement |-> improvement,
     rollbackRequired |-> (type = ActionRollback),
     rollbackSuccess |-> result.success]
SaveRecord(type, s, improvement, result) ==
    [sugg |-> s, applied |-> TRUE, success |-> result.success,
     improvement |-> improvement,
     rollbackRequired |-> (type = ActionRollback),
     rollbackSuccess |-> (type = ActionRollback /\ result.success)]

Returned(result, err, saved) == [result |-> result, err |-> err, saved |-> saved]

\* the end of ExecuteAction: save the record when a storage is set, return
PersistEscalates(type, s, improvement, result, hasStorage, saveOut) ==
    IF hasStorage
    THEN IF saveOut = "ok"
         THEN Returned(result, "nil", <<SaveRecord(type, s, improvement, result)>>)
         ELSE Returned([result EXCEPT !.success = FALSE], "save",
                       <<SaveRecord(type, s, improvement, result)>>)
    ELSE Returned(result, "nil", <<>>)
Persist(type, s, improvement, result, hasStorage, saveOut) ==
    IF hasStorage
    THEN Returned(result, "nil", <<SaveRecord(type, s, improvement, result)>>)
    ELSE Returned(result, "nil", <<>>)

NoResult == [result |-> ActionResult("", FALSE, Desc("", "")), err |-> "nil"]

\* a handler as NewActionHandler builds it, and a call about to be made: either
\* ExecuteAction directly, or the selection of ProcessMeasurement in front of it
\* the suggestions the worker may have applied before the measurement: the
\* latest optimization of the History the handler was built with
AppliedSuggestions == [category : {"optimize", "index"}, metrics : {<<>>}]

\* suggestions whose metrics carry names of every kind, for the extraction
ExtractionPool == {Metric(n, v) : n \in ExtractionNames, v \in Improvements}
ExtractionSuggestions ==
    [category : {"optimize", "index"}, metrics : SeqsUpTo(ExtractionPool, MaxMetrics)]

\* a call of ProcessMeasurement on such a suggestion, by a handler that has
\* only its threshold
ExtractionInit ==
    /\ handler \in [optimizer : {FALSE}, storage : {FALSE}, history : {FALSE},
                    threshold : Thresholds]
    /\ \E s \in ExtractionSuggestions, a \in AppliedSuggestions :
          act = [pc |-> "select", caller |-> "ProcessMeasurement", type |-> "",
                 sugg |-> s, improvement |-> 0, applied |-> a]
    /\ aResult = NoResult
    /\ aCalls = <<>>
    /\ aSaves = <<>>

\* a call of ProcessMeasurement in a worker's cycle, where sugg is the
\* actionSuggestion the engine returned to the handler, or a direct call of
\* ExecuteAction
ActInit ==
    /\ handler \in [optimizer : BOOLEAN, storage : BOOLEAN, history : BOOLEAN,
                    threshold : Thresholds]
    /\ \E s \in ActionSuggestions :
          \/ \E a \in AppliedSuggestions :
                act = [pc |-> "select", caller |-> "ProcessMeasurement", type |-> "",
                       sugg |-> s, improvement |-> 0, applied |-> a]
          \/ \E t \in GivenTypes, v \in Improvements :
                act = [pc |-> "execute", caller |-> "direct", type |-> t,
                       sugg |-> s, improvement |-> v, applied |-> <<>>]
    /\ aResult = NoResult
    /\ aCalls = <<>>
    /\ aSaves = <<>>

\* ProcessMeasurement from "improvement := getImprovementFromSuggestion(...)"
\* up to the call of ExecuteAction
SelectStep ==
    /\ act.pc = "select"
    /\ LET v == GetImprovementFromSuggestion(act.sugg) IN
          act' = [act EXCEPT !.pc = "execute", !.improvement = v,
                             !.type = SelectAction(v, act.sugg.category, handler.threshold)]
    /\ UNCHANGED <<handler, aResult, aCalls, aSaves, otherThanAct>>

\* ExecuteAction(ctx, actionType, suggestion, improvement); the record is
\* filled from h.history, whose methods dereference it: with a storage and no
\* history the call panics after the switch
ExecuteAction ==
    /\ act.pc = "execute"
    /\ \E optOut \in {"nil", "err"}, saveOut \in {"ok", "fail"} :
          LET sw == Switch(act.type, handler.optimizer, act.sugg, optOut)
              r == Persist(act.type, act.sugg, act.improvement, sw.result,
                           handler.storage, saveOut)
          IN
          /\ aCalls' = aCalls \o [i \in 1..Len(sw.calls) |->
                                    [sw.calls[i] EXCEPT !.call = <<@, optOut>>]]
          /\ IF handler.storage /\ ~handler.history
             THEN /\ act' = [act EXCEPT !.pc = "panicked"]
                  /\ UNCHANGED <<aResult, aSaves>>
             ELSE /\ act' = [act EXCEPT !.pc = "done"]
                  /\ aResult' = [result |-> r.result, err |-> r.err]
                  /\ aSaves' = aSaves \o [i \in 1..Len(r.saved) |->
                                            [out |-> saveOut, record |-> r.saved[i]]]
    /\ UNCHANGED <<handler, otherThanAct>>

(***************************************************************************)
(* The measurement                                                         *)
(***************************************************************************)
\* a History (or nil): its two reports may be nil, its optimizations are counted
Histories ==
    {[set |-> FALSE, before |-> FALSE, after |-> FALSE, opts |-> 0]} \cup
    [set : {TRUE}, before : BOOLEAN, after : BOOLEAN, opts : 0..MaxHistory]

NoCalls == <<>>

\* what aiConn.Generate can return: an error, or the value json.Unmarshal
\* decoded into an `any` (a map for a JSON object, nil for JSON null)
GenerateReplies == {"err", "map", "null"}

\* response.(*ai.OptimizationSuggestion): holds only for a value of that
\* pointer type, which no reply of Generate has
IsSuggestion(reply) == reply = "suggestion"

\* the guards at the head of Measure: the error of the first one that fails
PreconditionIgnoresOptimizations(h) ==
    IF ~h.set THEN "historyRequired"
    ELSE IF ~h.before THEN "beforeReportRequired"
    ELSE IF ~h.after THEN "afterReportRequired"
    ELSE "nil"
Precondition(h) ==
    IF ~h.set THEN "historyRequired"
    ELSE IF ~h.before THEN "beforeReportRequired"
    ELSE IF ~h.after THEN "afterReportRequired"
    ELSE IF h.opts = 0 THEN "noOptimization"
    ELSE "nil"

\* the calls Measure makes once it holds the suggestion: the preliminary record
\* goes to the storage, then the action handler processes the measurement
AfterAssertion(m) ==
    (IF m.storage THEN <<<<"Save", "preliminary">>>> ELSE <<>>) \o
    (IF m.actionHandler THEN <<<<"ProcessMeasurement", "suggestion">>>> ELSE <<>>)

\* NewMeasurement with its options, and a call of Measure or MeasureAndStore
MsrInit ==
    /\ measurement \in [storage : BOOLEAN, actionHandler : BOOLEAN]
    /\ mHistory \in Histories
    /\ mPc = "ready"
    /\ mCaller \in {"Measure", "MeasureAndStore"}
    /\ mRet = "nil"
    /\ mCalls = NoCalls

\* Measure(ctx): the guards, aiConn.Generate, the type assertion on its reply,
\* then the save and the action handler
Measure ==
    /\ mPc = "ready"
    /\ LET e == Precondition(mHistory) IN
          IF e # "nil"
          THEN /\ mRet' = e
               /\ mPc' = "measured"
               /\ UNCHANGED mCalls
          ELSE \E reply \in GenerateReplies :
                  IF reply = "err"
                  THEN /\ mCalls' = Append(mCalls, <<"Generate", reply>>)
                       /\ mPc' = "measured"
                       /\ mRet' = "generate"
                  ELSE IF ~IsSuggestion(reply)
                  THEN /\ mCalls' = Append(mCalls, <<"Generate", reply>>)
                       /\ mPc' = "panicked"
                       /\ UNCHANGED mRet
                  ELSE /\ mCalls' = Append(mCalls, <<"Generate", reply>>)
                                       \o AfterAssertion(measurement)
                       /\ mPc' = "measured"
                       /\ UNCHANGED mRet
    /\ UNCHANGED <<measurement, mHistory, mCaller, otherThanMsr>>

\* the return to the caller; MeasureAndStore wraps an error of Measure and
\* otherwise adds the suggestion to the history
MeasureReturn ==
    /\ mPc = "measured"
    /\ mPc' = "returned"
    /\ IF mCaller = "MeasureAndStore" /\ mRet = "nil"
       THEN /\ mHistory' = [mHistory EXCEPT !.opts = @ + 1]
            /\ mCalls' = Append(mCalls, <<"AddOptimization", "suggestion">>)
       ELSE UNCHANGED <<mHistory, mCalls>>
    /\ UNCHANGED <<measurement, mCaller, mRet, otherThanMsr>>

(***************************************************************************)
(* The history: tracker.History                                            *)
(***************************************************************************)
\* suggestions as the history holds them: pointers, told apart by identity
SuggestionRefs == {"s1", "s2", "s3"}
ReportRefs == {"r1", "r2"}
Nil == "nil"

\* append(h.optimizations, suggestion)
AppendedInFront(list, s) == <<s>> \o list
Appended(list, s) == Append(list, s)

GetLatestOptimization(h) ==
    IF Len(h.optimizations) = 0 THEN Nil
    ELSE h.optimizations[Len(h.optimizations)]
GetOptimizationCount(h) == Len(h.optimizations)
GetBeforeReport(h) == h.report
GetAfterReport(h) == h.afterReport

\* NewHistory with its options: the before-report and, possibly, a list
HistInit ==
    /\ initial \in SeqsUpTo(SuggestionRefs, MaxInitial)
    /\ history \in [report : ReportRefs, afterReport : {Nil},
                    optimizations : {initial}]
    /\ added = <<>>

\* AddOptimization(suggestion), with a suggestion that is not nil
AddOptimization(s) ==
    /\ history # <<>>
    /\ Len(added) < MaxAdds
    /\ history' = [history EXCEPT !.optimizations = Appended(@, s)]
    /\ added' = Append(added, s)
    /\ UNCHANGED <<initial, otherThanHist>>

\* SetAfterReport(report)
SetAfterReport(r) ==
    /\ history # <<>>
    /\ history' = [history EXCEPT !.afterReport = r]
    /\ UNCHANGED <<initial, added, otherThanHist>>

(***************************************************************************)
(* The validation: MongoOptimizer.Validate                                 *)
(***************************************************************************)
ProblemNames == {"m1", "m2"}
StepNames == {"m1", "m2", "m3"}
BeforeValues == {1, 2}
ProblemMetric == [name : ProblemNames, value : BeforeValues]
ValSuggestions ==
    [problem : SeqsUpTo(ProblemMetric, MaxProblemMetrics),
     validation : SeqsUpTo(StepNames, MaxSteps)]

\* validateStep: the placeholder metric, named after the step, value 0
validateStep(step) == [name |-> step, value |-> 0]

\* the first problem metric of that name, 0 for none
FindProblemMetric(problem, name) ==
    LET hits == {k \in 1..Len(problem) : problem[k].name = name}
    IN  IF hits = {} THEN 0 ELSE CHOOSE k \in hits : \A j \in hits : k <= j

\* ((problemMetric.Value - metric.Value) / problemMetric.Value) * 100, kept as
\* a fraction of integers
Fraction(n, d) == [num |-> n, den |-> d]
Plus(f, g) == Fraction(f.num * g.den + g.num * f.den, f.den * g.den)
SameValue(f, g) == f.den # 0 /\ g.den # 0 /\ f.num * g.den = g.num * f.den
Positive(f) == f.den # 0 /\ f.num * f.den > 0
StepImprovement(b, a) == Fraction((b - a) * 100, b)

\* the loop over suggestion.Validation: the running total and result.Metrics,
\* a map from metric name to its before and after value
RECURSIVE ValidateLoop(_, _, _, _)
ValidateLoop(s, i, total, metrics) ==
    IF i > Len(s.validation) THEN [total |-> total, metrics |-> metrics]
    ELSE LET metric == validateStep(s.validation[i])
             k == FindProblemMetric(s.problem, metric.name)
         IN  IF k = 0 THEN ValidateLoop(s, i + 1, total, metrics)
             ELSE ValidateLoop(s, i + 1,
                      Plus(total, StepImprovement(s.problem[k].value, metric.value)),
                      [n \in DOMAIN metrics \cup {metric.name} |->
                          IF n = metric.name
                          THEN [before |-> s.problem[k].value, after |-> metric.value]
                          ELSE metrics[n]])

\* totalImprovement / float64(len(result.Metrics))
DividedByMetrics(total, metrics) ==
    Fraction(total.num, total.den * Cardinality(DOMAIN metrics))

\* the validation steps whose metric has a problem metric of its name
MatchedSteps(s) ==
    {i \in 1..Len(s.validation) :
        FindProblemMetric(s.problem, validateStep(s.validation[i]).name) # 0}

ValidationResult(s) ==
    LET l == ValidateLoop(s, 1, Fraction(0, 1), <<>>)
        improvement == DividedByMetrics(l.total, l.metrics)
    IN  [metrics |-> l.metrics,
         improvement |-> improvement,
         success |-> Positive(improvement)]

ValInit ==
    /\ vSugg \in ValSuggestions
    /\ vPc = "ready"
    /\ vResult = <<>>

\* Validate(ctx, databaseName, suggestion)
Validate ==
    /\ vPc = "ready"
    /\ vPc' = "validated"
    /\ vResult' = ValidationResult(vSugg)
    /\ UNCHANGED <<vSugg, otherThanVal>>

(***************************************************************************)
(* The record store: storage.FileStorage and storage.S3Storage             *)
(***************************************************************************)
\* database names in the order of directory entries and object keys
StoreDbs == <<"db1", "db2">>
DbIndex(d) == CHOOSE k \in 1..Len(StoreDbs) : StoreDbs[k] = d

\* record IDs are numbered: 0 is the empty string, 1..MaxGivenId are IDs given
\* by callers, the n-th ID of uuid.New is MaxGivenId + n
NoId == 0
Uuid(n) == MaxGivenId + n

\* instants: 0 is the zero time.Time, the clock reads 1..MaxSaves
ZeroTime == 0
Times == 1..MaxSaves

\* storage.OptimizationRecord, as far as the stores read it
Records == [id : NoId..MaxGivenId, ts : {ZeroTime} \cup Times,
            db : {StoreDbs[k] : k \in 1..Len(StoreDbs)}]

\* json.Marshal and json.Unmarshal of a record
Marshal(rec) == <<"id", rec.id, "timestamp", rec.ts, "database_name", rec.db>>
Unmarshal(doc) == [id |-> doc[2], ts |-> doc[4], db |-> doc[6]]

\* the path of a record's file, the key of a record's object
Key(rec) == <<rec.db, rec.id>>

\* FileStorage.SaveOptimizationRecord fills in a missing ID and a zero
\* timestamp; S3Storage.SaveOptimizationRecord stores the record as it is
Filled(kind, rec, now, uuids) ==
    IF kind = "file"
    THEN [rec EXCEPT !.id = IF @ = NoId THEN Uuid(uuids + 1) ELSE @,
                     !.ts = IF @ = ZeroTime THEN now ELSE @]
    ELSE rec

\* os.WriteFile, PutObject: the document under its key, replacing an older one
Written(objects, rec) ==
    [k \in DOMAIN objects \cup {Key(rec)} |->
        IF k = Key(rec) THEN Marshal(rec) ELSE objects[k]]

\* os.ReadDir and ListObjectsV2 list in the order of the names
KeyBefore(a, b) ==
    \/ DbIndex(a[1]) < DbIndex(b[1])
    \/ a[1] = b[1] /\ a[2] < b[2]
RECURSIVE InOrder(_)
InOrder(keys) ==
    IF keys = {} THEN <<>>
    ELSE LET first == CHOOSE k \in keys : \A j \in keys \ {k} : KeyBefore(k, j)
         IN  <<first>> \o InOrder(keys \ {first})

\* records[i].Timestamp.After(records[j].Timestamp)
Before(a, b) == a < b
After(a, b) == a > b

\* sort.Slice, which sorts a short slice by insertion
RECURSIVE Inserted(_, _)
Inserted(sorted, rec) ==
    IF sorted = <<>> THEN <<rec>>
    ELSE IF After(rec.ts, sorted[Len(sorted)].ts)
    THEN Append(Inserted(SubSeq(sorted, 1, Len(sorted) - 1), rec), sorted[Len(sorted)])
    ELSE Append(sorted, rec)
RECURSIVE NewestFirst(_)
NewestFirst(recs) ==
    IF recs = <<>> THEN <<>>
    ELSE Inserted(NewestFirst(SubSeq(recs, 1, Len(recs) - 1)), recs[Len(recs)])

\* the records read from the files or objects under the given keys
ReadRecords(st, keys) ==
    LET order == InOrder(keys)
    IN  [k \in 1..Len(order) |-> Unmarshal(st.objects[order[k]])]

ListOptimizationRecords(st) == NewestFirst(ReadRecords(st, DOMAIN st.objects))
ListOptimizationRecordsByDatabase(st, d) ==
    NewestFirst(ReadRecords(st, {k \in DOMAIN st.objects : k[1] = d}))

NotFound == [id |-> -1, ts |-> -1, db |-> ""]
GetLatestOptimizationRecord(st) ==
    LET records == ListOptimizationRecords(st)
    IN  IF Len(records) = 0 THEN NotFound ELSE records[1]

\* the first directory, or the first key, that holds a record of that ID
GetOptimizationRecord(st, id) ==
    LET order == InOrder({k \in DOMAIN st.objects : k[2] = id})
    IN  IF id = NoId /\ st.kind = "s3" THEN NotFound
        ELSE IF Len(order) = 0 THEN NotFound
        ELSE Unmarshal(st.objects[order[1]])

\* NewFileStorage on an empty directory, NewS3Storage on an empty bucket
StoInit ==
    /\ store \in [kind : {"file", "s3"}, objects : {<<>>}]
    /\ sSaved = <<>>
    /\ sClock = 1
    /\ sUuids = 0

\* SaveOptimizationRecord(ctx, record), succeeding
SaveOptimizationRecord(rec) ==
    /\ store # <<>>
    /\ Len(sSaved) < MaxSaves
    /\ \E now \in Times :
          /\ now >= sClock
          /\ LET stored == Filled(store.kind, rec, now, sUuids) IN
                /\ store' = [store EXCEPT !.objects = Written(@, stored)]
                /\ sSaved' = Append(sSaved, [given |-> rec, stored |-> stored])
                /\ sUuids' = IF stored.id # rec.id THEN sUuids + 1 ELSE sUuids
                /\ sClock' = IF stored.ts # rec.ts THEN now ELSE sClock
    /\ UNCHANGED otherThanSto

(***************************************************************************)
(* Claims about the multi-database run                                     *)
(***************************************************************************)

\* workers that were admitted and have not yet given their slot back
Active == {i \in Workers : wpc[i] \notin {"idle", "wgDone", "exited"}}

\* workers whose result has been put on the result channel
Emitted == {i \in Workers : wpc[i] \in {"release", "wgDone", "exited"}}

\* C1: for every N and every M >= 1, the number of workers admitted and not
\* yet completed never exceeds M.
C1_AdmissionBound ==
    maxParallel >= 1 => Cardinality(Active) <= maxParallel

\* the gate is full and the orchestrator is blocked on the next admission
C1_Witness ==
    /\ maxParallel >= 1
    /\ mainPc = "acquire"
    /\ Cardinality(Active) = maxParallel
    /\ sem = maxParallel

\* C2: when the run finishes, the result list holds exactly one result per
\* entry of the input list, whichever workers failed and in whatever order
\* they completed.
C2_OneResultPerEntry ==
    mainPc = "done" =>
        /\ Len(results) = N
        /\ \A i \in Workers :
              Cardinality({k \in 1..Len(results) :
                              /\ results[k].worker = i
                              /\ results[k].db = databases[i]}) = 1
        /\ report.total = N
        /\ report.successes + report.failures = N

\* a finished run of two databases, one failed and one succeeded, collected
\* in the reverse of the input order
C2_Witness ==
    /\ mainPc = "done"
    /\ N = 2
    /\ results[1].worker = 2
    /\ \E k \in 1..2 : results[k].success
    /\ \E k \in 1..2 : ~results[k].success

\* worker i has failed: it panicked, or processDatabase returned an error
FailedWorker(i) ==
    \/ wpc[i] = "panicked"
    \/ werr[i] # "nil"
    \/ \E k \in 1..Len(resultsChan) :
          resultsChan[k].worker = i /\ ~resultsChan[k].success
    \/ \E k \in 1..Len(results) : results[k].worker = i /\ ~results[k].success

\* worker j can no longer run to completion and emit its result
Prevented(j) == crashed /\ j \notin Emitted /\ wpc[j] # "panicked"

\* C3: a failure of one worker, at any step, never prevents a sibling from
\* running to completion and emitting its own result.
C3_FailureIsolated ==
    \A i \in Workers : FailedWorker(i) => \A j \in Workers \ {i} : ~Prevented(j)

\* C19: in every mode of a worker a failing Save of the record store is
\* swallowed: the worker's result is the one it would have had with a
\* successful Save, so no result carries the Save's error.
C19_SaveFailureSwallowed ==
    \A k \in 1..Len(results) : results[k].error # "save"

\* the calls of worker i by callee, and the positions of one callee's calls
StepsOf(i) == [k \in 1..Len(wlog[i]) |-> wlog[i][k][1]]
CallsOf(i, step) == {k \in 1..Len(wlog[i]) : wlog[i][k][1] = step}
Failed(i, step) == {k \in CallsOf(i, step) : wlog[i][k][3] = "err"}
Succeeded(i, step) == {k \in CallsOf(i, step) : wlog[i][k][3] = "ok"}
IsPrefix(s, t) == Len(s) <= Len(t) /\ \A k \in 1..Len(s) : s[k] = t[k]

\* processDatabase of worker i has returned
Ended(i) == wpc[i] \in {"send", "release", "wgDone", "exited"}

\* the error of worker i: what processDatabase returned, then what its result carries
ErrorsOf(i) ==
    IF wpc[i] = "send" THEN {werr[i]}
    ELSE {resultsChan[k].error : k \in {j \in 1..Len(resultsChan) : resultsChan[j].worker = i}}
         \cup {results[k].error : k \in {j \in 1..Len(results) : results[j].worker = i}}

\* C24: at every point of a worker's lifecycle every suggestion in its
\* History's optimization list is one the Optimizer has successfully applied.
C24_HistoryHoldsAppliedOnly ==
    \A i \in Workers : \A k \in 1..Len(whist[i]) :
        \E j \in Succeeded(i, "Apply") : wlog[i][j][2] = whist[i][k]

\* C25: with rollback enabled a failing Apply is followed by exactly one
\* Rollback, of the same suggestion; if the Rollback fails the worker's error
\* carries the apply cause and the rollback cause, if it succeeds the worker
\* still fails, with the apply cause. With rollback disabled there is no Rollback.
C25_RollbackAfterFailedApply ==
    \A i \in Workers :
        /\ ~enableRollback => CallsOf(i, "Rollback") = {}
        /\ \A k \in CallsOf(i, "Rollback") :
              k > 1 /\ k - 1 \in Failed(i, "Apply")
        /\ (enableRollback /\ wpc[i] # "rollback") =>
              \A k \in Failed(i, "Apply") :
                  /\ CallsOf(i, "Rollback") = {k + 1}
                  /\ wlog[i][k + 1][2] = wlog[i][k][2]
        /\ Ended(i) =>
              /\ Failed(i, "Rollback") # {} =>
                    \A e \in ErrorsOf(i) : Causes(e) = {"apply", "rollback"}
              /\ Succeeded(i, "Rollback") # {} =>
                    \A e \in ErrorsOf(i) : e # "nil" /\ Causes(e) = {"apply"}
              /\ (~enableRollback /\ Failed(i, "Apply") # {}) =>
                    \A e \in ErrorsOf(i) : e # "nil" /\ Causes(e) = {"apply"}

\* Apply failed, the Rollback failed too, and the result has been collected
C25_Witness ==
    \E i \in Workers :
        /\ enableRollback
        /\ Failed(i, "Apply") # {}
        /\ Failed(i, "Rollback") # {}
        /\ \E k \in 1..Len(results) :
              results[k].worker = i /\ results[k].error = "applyFailedRollbackFailed"

\* C26: in compare-only mode a worker, after the before-report, hands exactly
\* one record (before-report only, applied = false) to the storage and ends: it
\* requests no suggestion and calls neither Apply, Rollback, Measure nor Validate.
C26_CompareOnlyStoresAndEnds ==
    compareOnly =>
        \A i \in Workers :
            /\ IsPrefix(StepsOf(i), <<"CollectBefore", "SaveOptimizationRecord">>)
            /\ \A k \in CallsOf(i, "SaveOptimizationRecord") :
                  wlog[i][k][2] = [before |-> TRUE, after |-> FALSE,
                                   suggestion |-> FALSE, applied |-> FALSE]
            /\ (Ended(i) /\ Succeeded(i, "CollectBefore") # {}) =>
                  Cardinality(CallsOf(i, "SaveOptimizationRecord")) = 1
            /\ whist[i] = <<>>

\* a compare-only worker has stored its record and exited
C26_Witness ==
    /\ compareOnly
    /\ \E i \in Workers :
          /\ wpc[i] = "exited"
          /\ Succeeded(i, "SaveOptimizationRecord") # {}

\* the calls of a worker that is not compare-only, in the order of processDatabase
StepOrder ==
    <<"CollectBefore", "NewHistory", "Generate", "AddOptimization", "Apply",
      "CollectAfter", "SetAfterReport", "MeasureAndStore", "Validate">>
RECURSIVE Without(_, _)
Without(seq, step) ==
    IF seq = <<>> THEN <<>>
    ELSE IF Head(seq) = step THEN Without(Tail(seq), step)
    ELSE <<Head(seq)>> \o Without(Tail(seq), step)

Finished == mainPc = "done"
\* no goroutine was ever started
NoneStarted == \A i \in Workers : wpc[i] = "idle"

\* C32 as stated: provided every worker terminates, the run terminates and
\* prints its report exactly when M >= 1, for every N >= 0; with M = 0 and
\* N >= 1 the orchestrator blocks on the first admission and starts no worker.
C32_TerminatesExactlyWhenParallel ==
    /\ [](Finished => maxParallel >= 1)
    /\ (maxParallel >= 1) => <>(Finished \/ crashed)
    /\ [](maxParallel = 0 /\ N >= 1 => ~Finished /\ NoneStarted)

\* C32: provided every worker terminates, the run terminates and prints its
\* report exactly when M >= 1 or the list is empty; with M = 0 and N >= 1 the
\* orchestrator blocks on the first admission and starts no worker.
C32_TerminatesUnlessBlocked ==
    /\ [](Finished => (maxParallel >= 1 \/ N = 0))
    /\ (maxParallel >= 1 \/ N = 0) => <>(Finished \/ crashed)
    /\ [](maxParallel = 0 /\ N >= 1 => ~Finished /\ NoneStarted)

\* the run of an empty list has printed its report although M = 0
C32_Witness ==
    /\ Finished
    /\ N = 0
    /\ maxParallel = 0
    /\ report.total = 0

\* C33: no two workers that are active at the same time target the same
\* database name, also when a name appears more than once in the input list.
C33_NoTwoWorkersOnOneDatabase ==
    \A i \in Active : \A j \in Active \ {i} : databases[i] # databases[j]

\* C34: in every reachable state the number of held admission slots equals the
\* number of workers started and not yet completed; every worker releases its
\* slot once, after success and after failure alike, and when the last worker
\* has completed no slot is held.
C34_SlotsMatchWorkers ==
    /\ sem = Cardinality(Active)
    /\ sem >= 0
    /\ (\A i \in Workers : wpc[i] \in {"wgDone", "exited"}) => sem = 0

\* of two workers one has failed and given its slot back, the other holds its own
C34_Witness ==
    /\ N = 2
    /\ sem = 1
    /\ \E i \in Workers :
          /\ wpc[i] = "exited"
          /\ \E e \in ErrorsOf(i) : e # "nil"
          /\ \E j \in Workers \ {i} : j \in Active

(***************************************************************************)
(* Claims about the optimizer                                              *)
(***************************************************************************)
Ops == sugg.ops

\* the index name the specification resolves for a createIndex operation
WantedName(op) == IF op.optName # "" THEN op.optName ELSE op.name

CmdsOf(call) == SelectSeq(cmds, LAMBDA c : c.call = call)

\* C4: for createIndex operations with non-empty keys, Apply followed at once
\* by Rollback of the same suggestion leaves the indexes as they were before
\* Apply (the executor and the queries working without fault).
C4_RoundTrip ==
    ( /\ phase = "rolledBack"
      /\ ~faults
      /\ sugg.category = "index"
      /\ Len(Ops) >= 1
      /\ \A k \in 1..Len(Ops) : Ops[k].action = "createIndex" /\ Ops[k].keys # "" )
    => indexes = before

\* C29: when Apply has failed and Rollback is then run on the same suggestion,
\* the indexes after the Rollback are those that existed before Apply started;
\* an index that existed before Apply is never dropped by that Rollback (the
\* executor and the queries working without fault).
C29_RollbackAfterFailureRestores ==
    (phase = "rolledBack" /\ applyErr # NoErr /\ ~faults) =>
        /\ indexes = before
        /\ \A c \in CollNames : before[c] \subseteq indexes[c]

\* C31: every index suggestion for which Apply returned success can be rolled
\* back: Rollback builds an inverse command for each of its operations and,
\* the executor accepting the commands, returns success.
C31_AppliedCanBeRolledBack ==
    ( /\ phase = "rolledBack"
      /\ applyErr = NoErr
      /\ sugg.category = "index"
      /\ ~faults )
    => /\ ret = NoErr
       /\ \A k \in 1..Len(Ops) :
             Ops[k].action \in {"createIndex", "dropIndex"} =>
                \E j \in 1..Len(CmdsOf("rollback")) : CmdsOf("rollback")[j].op = k

\* what Apply and Rollback do with an empty operation list and with an
\* operation that is neither createIndex nor dropIndex
EmptyApplySucceeds ==
    (phase = "idle" /\ phase' # "idle" /\ sugg.category = "index" /\ Len(sugg.ops) = 0)
    => /\ phase' = "applied"
       /\ ret' = NoErr
       /\ queries' = 0
       /\ cmds' = <<>>
       /\ indexes' = indexes
RollbackSkipsUnsupported ==
    (phase = "rollingBack" /\ sugg.ops[opIdx].action \notin {"createIndex", "dropIndex"})
    => /\ cmds' = cmds
       /\ indexes' = indexes
       /\ ret' = NoErr
       /\ IF opIdx < Len(sugg.ops)
          THEN phase' = "rollingBack" /\ opIdx' = opIdx + 1
          ELSE phase' = "rolledBack"
ApplyFailsOnUnsupported ==
    (phase = "applying" /\ sugg.ops[opIdx].action \notin {"createIndex", "dropIndex"})
    => /\ phase' = "applied"
       /\ ret'.kind # "nil"
       /\ cmds' = cmds
       /\ indexes' = indexes

\* C40: Apply of an index suggestion with an empty operation list returns
\* success without any existence query or native command; Rollback skips an
\* operation whose action is neither createIndex nor dropIndex and continues
\* with the remaining operations; Apply fails on such an operation without
\* executing a command for it.
C40_EmptyAndUnsupported ==
    [][EmptyApplySucceeds /\ RollbackSkipsUnsupported /\ ApplyFailsOnUnsupported]_vars

\* Apply has failed on the unsupported first operation, Rollback has skipped
\* it and issued the inverse of the second
C40_Witness ==
    /\ phase = "rolledBack"
    /\ Len(sugg.ops) = 2
    /\ sugg.ops[1].action = "collMod"
    /\ sugg.ops[2].action = "createIndex"
    /\ applyErr.msg = "unsupportedAction"
    /\ ret = NoErr
    /\ Len(cmds) = 1
    /\ cmds[1].call = "rollback"
    /\ cmds[1].op = 2

\* C5: once Apply reaches an operation whose collection does not exist, it
\* returns a failure and no command is executed for that or any later operation.
C5_NoCommandForMissingCollection ==
    phase \in {"applying", "applied"} =>
        \A k \in 1..Len(Ops) :
            Ops[k].collection \notin colls =>
                /\ \A j \in 1..Len(cmds) : cmds[j].op < k
                /\ phase = "applied" => ret.kind # "nil"

\* the first operation ran its command, the second names a missing collection
C5_Witness ==
    /\ phase = "applied"
    /\ Len(Ops) = 2
    /\ Ops[2].collection \notin colls
    /\ ret.op = 2
    /\ ret.msg = "collectionMissing"
    /\ Len(cmds) = 1

\* C6: Apply never executes createIndexes for a resolved name that exists, nor
\* dropIndexes for a name that is empty or does not exist; in these cases it
\* fails before any command for the operation is issued.
C6_PreValidated ==
    /\ \A j \in 1..Len(cmds) :
          LET c == cmds[j]
              op == Ops[c.op]
          IN c.call = "apply" =>
                /\ c.verb = "createIndexes" =>
                      /\ c.name = WantedName(op)
                      /\ WantedName(op) \notin c.existing
                /\ c.verb = "dropIndexes" =>
                      /\ c.name = op.name
                      /\ op.name # ""
                      /\ op.name \in c.existing
    /\ ( /\ phase = "applied"
         /\ ret.msg \in {"indexExists", "indexMissing", "nameRequired"} )
       => \A j \in 1..Len(cmds) : cmds[j].op # ret.op

\* a createIndex whose options name exists already was refused without a command
C6_Witness ==
    /\ phase = "applied"
    /\ ret.msg = "indexExists"
    /\ Ops[ret.op].optName # ""
    /\ Ops[ret.op].name # ""
    /\ \A j \in 1..Len(cmds) : cmds[j].op # ret.op

\* C7: when Apply returns success for an index suggestion, the post-execution
\* existence query has confirmed the effect of every operation.
C7_SuccessMeansConfirmed ==
    ( /\ phase = "applied"
      /\ ret.kind = "nil"
      /\ sugg.category = "index" )
    => /\ Len(confirmed) = Len(Ops)
       /\ \A k \in 1..Len(Ops) : confirmed[k]

\* C8: Apply handles the operations in list order and stops at the first
\* failing operation k: operations 1..k-1 stay applied, nothing is executed for
\* k+1..n, and the error is the one of operation k.
C8_StopsAtFirstFailure ==
    /\ \A i, j \in 1..Len(cmds) :
          (i < j /\ cmds[i].call = "apply" /\ cmds[j].call = "apply")
             => cmds[i].op < cmds[j].op
    /\ ( /\ phase = "applied"
         /\ ret.kind # "nil"
         /\ ret.op >= 1 )
       => /\ \A j \in 1..Len(cmds) : cmds[j].op <= ret.op
          /\ \A k \in 1..(ret.op - 1) : \E j \in 1..Len(cmds) : cmds[j].op = k
          /\ Len(trail) = ret.op
          /\ (\A j \in 1..Len(cmds) : cmds[j].op # ret.op) => indexes = trail[ret.op]
          /\ ret.op < Len(Ops) => opIdx = ret.op

\* the second operation failed and the first one's index change is still there
C8_Witness ==
    /\ phase = "applied"
    /\ ret.kind # "nil"
    /\ ret.op = 2
    /\ indexes # before
    /\ indexes = trail[2]

\* C9: Rollback inverts the operations in forward order; at the first inverted
\* command that fails it stops with a Rollback error carrying that command,
\* keeps the earlier inversions and issues nothing for the later operations.
C9_ForwardRollback ==
    LET rb == CmdsOf("rollback") IN
    /\ \A i, j \in 1..Len(rb) : i < j => rb[i].op < rb[j].op
    /\ \A j \in 1..Len(rb) :
          LET c == rb[j]
              op == Ops[c.op]
          IN /\ op.action = "createIndex" =>
                  c.verb = "dropIndexes" /\ c.name = WantedName(op)
             /\ op.action = "dropIndex" =>
                  /\ c.verb = "createIndexes"
                  /\ c.name = op.name /\ c.keys = op.keys /\ c.opts = op.opts
             /\ op.action \in {"createIndex", "dropIndex"}
    /\ ( /\ phase = "rolledBack"
         /\ ret.kind # "nil"
         /\ ret.cmd # NoCmd )
       => /\ ret.kind = "rollback"
          /\ Len(rb) >= 1
          /\ ret.cmd = rb[Len(rb)]
          /\ ret.cmd.op = ret.op
          /\ Len(trail) = ret.op
          /\ indexes = trail[ret.op]

\* the first inversion took effect, the second inverted command failed
C9_Witness ==
    /\ phase = "rolledBack"
    /\ sugg.category = "index"
    /\ ret.kind = "rollback"
    /\ ret.cmd # NoCmd
    /\ ret.op = 2
    /\ Len(CmdsOf("rollback")) = 2
    /\ trail[2] # trail[1]
    /\ indexes = trail[2]

\* C10: Rollback of a suggestion without operations returns success and issues
\* no native command.
C10_EmptyRollback ==
    (phase = "rolledBack" /\ Len(Ops) = 0)
    => /\ ret = NoErr
       /\ CmdsOf("rollback") = <<>>
       /\ indexes = before

C10_Witness ==
    /\ phase = "rolledBack"
    /\ Len(Ops) = 0
    /\ sugg.category = "index"

\* C11: Apply of a suggestion of category query, schema, configuration or of an
\* unknown category returns an error and executes no native command, whatever
\* the operations are, and also when it is called again.
C11_NonIndexAlwaysFails ==
    sugg.category # "index" =>
        /\ phase # "applying"
        /\ (phase = "applied" /\ calls >= 1) =>
              /\ ret.kind # "nil"
              /\ CmdsOf("apply") = <<>>
              /\ indexes = before

\* the second Apply of a query suggestion with operations has failed again
C11_Witness ==
    /\ phase = "applied"
    /\ calls = 2
    /\ sugg.category = "query"
    /\ Len(Ops) >= 1
    /\ Ops[1].action = "createIndex"
    /\ ret.msg = "notImplemented"

(***************************************************************************)
(* Claims about the action handler                                         *)
(***************************************************************************)
Selected == act.caller = "ProcessMeasurement" /\ act.pc \in {"execute", "done"}
Executed == act.pc = "done"
OptOutcomes == {aCalls[i].call[2] : i \in 1..Len(aCalls)}

\* C12: the action is chosen by the first matching rule: improvement < 0 gives
\* Rollback; else improvement < threshold gives Alert; else category "optimize"
\* gives Optimize; else None. Improvement equal to the threshold is not Alert.
C12_FirstMatchingRule ==
    Selected =>
        LET v == act.improvement
            t == handler.threshold
            c == act.sugg.category
        IN /\ v < 0 => act.type = ActionRollback
           /\ (v >= 0 /\ v < t) => act.type = ActionAlert
           /\ (v >= 0 /\ v >= t /\ c = "optimize") => act.type = ActionOptimize
           /\ (v >= 0 /\ v >= t /\ c # "optimize") => act.type = ActionNone
           /\ v = t => act.type # ActionAlert

\* improvement equal to a positive threshold: Optimize was chosen
C12_Witness ==
    /\ Selected
    /\ act.improvement = handler.threshold
    /\ handler.threshold > 0
    /\ act.type = ActionOptimize

C14_RollbackAction ==
    (Executed /\ act.type = ActionRollback) =>
        /\ aResult.result.type = ActionRollback
        /\ ~handler.optimizer => (~aResult.result.success /\ aCalls = <<>>)
        /\ handler.optimizer =>
              /\ Len(aCalls) = 1
              /\ aCalls[1].call[1] = "Rollback"
              /\ aCalls[1].sugg = act.sugg
              /\ aResult.result.success <=> (aCalls[1].call[2] = "nil")

\* the optimizer's Rollback was called and failed
C14_Witness ==
    /\ Executed
    /\ act.type = ActionRollback
    /\ handler.optimizer
    /\ Len(aCalls) = 1
    /\ aCalls[1].call = <<"Rollback", "err">>
    /\ ~aResult.result.success

\* C15: ExecuteAction(Optimize): without optimizer the result is Optimize,
\* unsuccessful, and nothing is applied; with an optimizer, Apply is called once
\* with the suggestion passed in and success says whether it returned nil.
C15_OptimizeAction ==
    (Executed /\ act.type = ActionOptimize) =>
        /\ aResult.result.type = ActionOptimize
        /\ ~handler.optimizer => (~aResult.result.success /\ aCalls = <<>>)
        /\ handler.optimizer =>
              /\ Len(aCalls) = 1
              /\ aCalls[1].call[1] = "Apply"
              /\ aCalls[1].sugg = act.sugg
              /\ aResult.result.success <=> (aCalls[1].call[2] = "nil")

\* the optimizer's Apply was called and failed
C15_Witness ==
    /\ Executed
    /\ act.type = ActionOptimize
    /\ handler.optimizer
    /\ Len(aCalls) = 1
    /\ aCalls[1].call = <<"Apply", "err">>
    /\ ~aResult.result.success

\* C16: ExecuteAction(None) and ExecuteAction(Alert) return success with the
\* same type and call neither Apply nor Rollback, with or without an optimizer.
C16_PassiveActions ==
    (Executed /\ act.type \in {ActionNone, ActionAlert}) =>
        /\ aResult.result.success
        /\ aResult.result.type = act.type
        /\ aCalls = <<>>

\* an alert for a negative improvement, handled without an optimizer
C16_Witness ==
    /\ Executed
    /\ act.type = ActionAlert
    /\ ~handler.optimizer
    /\ act.improvement < 0
    /\ aResult.result.success

\* C17: ExecuteAction with any other action type returns success=false, a
\* description naming the value, the type "unknown", and calls nothing.
C17_UnknownAction ==
    (Executed /\ act.type \notin ActionTypes) =>
        /\ ~aResult.result.success
        /\ aResult.result.desc = Desc("unknownActionType", act.type)
        /\ aResult.result.type = "unknown"
        /\ aCalls = <<>>

C17_Witness ==
    /\ Executed
    /\ act.type = "bogus"
    /\ handler.optimizer
    /\ aResult.result.type = "unknown"

\* C18: the ActionResult and the error ExecuteAction returns are those of the
\* action itself, whether the record was saved, the save failed, or no storage
\* is set.
C18_SaveNeverChangesOutcome ==
    Executed =>
        \E optOut \in {"nil", "err"} :
            /\ OptOutcomes \subseteq {optOut}
            /\ aResult.result =
                  Switch(act.type, handler.optimizer, act.sugg, optOut).result
            /\ aResult.err = "nil"
            /\ ~handler.storage => aSaves = <<>>

\* a successful rollback whose record could not be saved
C18_Witness ==
    /\ Executed
    /\ act.type = ActionRollback
    /\ handler.storage
    /\ Len(aSaves) = 1
    /\ aSaves[1].out = "fail"
    /\ aResult.result.success

C35_OneRecordPerAction ==
    (act.pc \in {"done", "panicked"} /\ handler.storage /\ handler.history) =>
        /\ Executed
        /\ Len(aSaves) = 1
        /\ LET rec == aSaves[1].record IN
              /\ rec.rollbackRequired <=> act.type = ActionRollback
              /\ rec.rollbackSuccess <=> (rec.rollbackRequired /\ aResult.result.success)
              /\ rec.success <=> aResult.result.success
              /\ rec.improvement = act.improvement
              /\ rec.sugg = act.sugg

\* an unknown action type was executed and its record stored
C35_Witness ==
    /\ Executed
    /\ handler.storage /\ handler.history
    /\ act.type \notin ActionTypes
    /\ Len(aSaves) = 1
    /\ ~aSaves[1].record.rollbackRequired

\* the names that, lower-cased, contain "improvement" or "performance"
MatchingNames == {ImprovementPct, PerformanceGain, QueryPerformance}
FirstMatching(metrics) ==
    LET hits == {k \in 1..Len(metrics) : metrics[k].name \in MatchingNames}
    IN  IF hits = {} THEN 0 ELSE CHOOSE k \in hits : \A j \in hits : k <= j

\* C38: the improvement extracted from a suggestion is the value of the first
\* problem metric, in list order, whose lower-cased name contains "improvement"
\* or "performance", and 0 when there is none; a suggestion without such a
\* metric is classified as Alert when the threshold is positive.
C38_ImprovementExtraction ==
    Selected =>
        LET k == FirstMatching(act.sugg.metrics) IN
           /\ k # 0 => act.improvement = act.sugg.metrics[k].value
           /\ k = 0 => act.improvement = 0
           /\ (k = 0 /\ handler.threshold > 0) => act.type = ActionAlert

\* the second metric is the first that matches, by its upper-case name
C38_Witness ==
    /\ Selected
    /\ Len(act.sugg.metrics) = 2
    /\ act.sugg.metrics[1].name = Improvemen
    /\ act.sugg.metrics[2].name = PerformanceGain
    /\ act.sugg.metrics[2].value # 0
    /\ act.improvement = act.sugg.metrics[2].value

(***************************************************************************)
(* Claims about the measurement                                            *)
(***************************************************************************)
PreconditionErrors ==
    {"historyRequired", "beforeReportRequired", "afterReportRequired", "noOptimization"}

\* C20: Measure fails with a precondition error, without calling the engine,
\* the record store or the action policy and without changing the history,
\* whenever the history is nil, a report is nil, or it holds no optimization.
C20_Preconditions ==
    ( /\ mPc \in {"measured", "returned", "panicked"}
      /\ \/ ~mHistory.set
         \/ ~mHistory.before
         \/ ~mHistory.after
         \/ mHistory.opts = 0 )
    => /\ mPc # "panicked"
       /\ mRet \in PreconditionErrors
       /\ ~mHistory.set => mRet = "historyRequired"
       /\ mCalls = NoCalls

\* both reports are there, the history holds no optimization
C20_Witness ==
    /\ mPc = "returned"
    /\ mHistory.set /\ mHistory.before /\ mHistory.after
    /\ mHistory.opts = 0
    /\ measurement.storage /\ measurement.actionHandler
    /\ mRet = "noOptimization"

\* the engine has answered the request of Measure with a reply, not an error
Answered == \E k \in 1..Len(mCalls) : mCalls[k][1] = "Generate" /\ mCalls[k][2] # "err"
CallsNamed(name) == {k \in 1..Len(mCalls) : mCalls[k][1] = name}

\* C21: MeasureAndStore, when it succeeds (the guards pass and the engine
\* answers), returns the suggestion and has appended it to the History as its
\* one new, last entry; when Measure fails it returns an error and the
\* History's list is unchanged.
C21_StoreGrowsHistoryByOne ==
    (mCaller = "MeasureAndStore" /\ mPc \in {"returned", "panicked"}) =>
        /\ Answered =>
              /\ mPc = "returned"
              /\ mRet = "nil"
              /\ Cardinality(CallsNamed("AddOptimization")) = 1
              /\ mCalls[Len(mCalls)] = <<"AddOptimization", "suggestion">>
        /\ ~Answered =>
              /\ mRet # "nil"
              /\ CallsNamed("AddOptimization") = {}

\* C22: in a successful Measure (the guards pass and the engine answers) with
\* storage and action handler set, the preliminary record goes to the storage
\* before the action handler is invoked, which happens once, with the engine's
\* suggestion; without an action handler no action is executed.
C22_RecordThenPolicy ==
    (mPc \in {"measured", "returned", "panicked"} /\ Answered) =>
        /\ mPc # "panicked"
        /\ mRet = "nil"
        /\ measurement.actionHandler =>
              /\ Cardinality(CallsNamed("ProcessMeasurement")) = 1
              /\ measurement.storage =>
                    \E i \in CallsNamed("Save"), j \in CallsNamed("ProcessMeasurement") :
                        /\ i < j
                        /\ mCalls[i] = <<"Save", "preliminary">>
                        /\ mCalls[j] = <<"ProcessMeasurement", "suggestion">>
        /\ ~measurement.actionHandler => CallsNamed("ProcessMeasurement") = {}

\* C36: Measure returns the re-assessment suggestion with no error whenever
\* the call of the SuggestionEngine succeeds, whatever the Action Policy then
\* does, so that the caller can go on (the worker to Validate).
C36_MeasureSucceedsWhateverPolicy ==
    \A k \in CallsNamed("Generate") :
        mCalls[k][2] # "err" =>
            /\ mPc \in {"measured", "returned"}
            /\ mRet = "nil"

(***************************************************************************)
(* Claims about the history                                                *)
(***************************************************************************)
\* C23: the History is append-only under AddOptimization: its list is the
\* initial list followed by the added suggestions in call order, the count is
\* the number of calls plus the initial length, the latest optimization is the
\* one added last, and it is nil exactly when the list is empty.
C23_AppendOnly ==
    history # <<>> =>
        /\ history.optimizations = initial \o added
        /\ GetOptimizationCount(history) = Len(initial) + Len(added)
        /\ added # <<>> => GetLatestOptimization(history) = added[Len(added)]
        /\ GetLatestOptimization(history) = Nil <=> history.optimizations = <<>>

\* two different suggestions were added to a history that started with one
C23_Witness ==
    /\ history # <<>>
    /\ Len(initial) = 1
    /\ Len(added) >= 2
    /\ added[1] # added[2]
    /\ added[1] # initial[1]

(***************************************************************************)
(* Claims about the validation                                             *)
(***************************************************************************)
\* the mean of the improvements of the matched validation steps
RECURSIVE SumOver(_, _)
SumOver(s, steps) ==
    IF steps = {} THEN Fraction(0, 1)
    ELSE LET i == CHOOSE i \in steps : TRUE
             k == FindProblemMetric(s.problem, s.validation[i])
         IN  Plus(SumOver(s, steps \ {i}), StepImprovement(s.problem[k].value, 0))
MeanOverMatched(s) ==
    LET t == SumOver(s, MatchedSteps(s))
    IN  Fraction(t.num, t.den * Cardinality(MatchedSteps(s)))

\* C27: the improvement Validate returns is the arithmetic mean of
\* (before-after)/before*100 over exactly the validation steps whose metric
\* name matches a problem metric, also when two steps have the same name.
C27_MeanOverMatchedSteps ==
    (vPc = "validated" /\ MatchedSteps(vSugg) # {}) =>
        SameValue(vResult.improvement, MeanOverMatched(vSugg))

(***************************************************************************)
(* Claims about the record store                                           *)
(***************************************************************************)
SavesFor(d) == {k \in 1..Len(sSaved) : sSaved[k].given.db = d}
StoredRecords == {sSaved[k].stored : k \in 1..Len(sSaved)}
Elements(seq) == {seq[k] : k \in 1..Len(seq)}

\* C37: every record handed to the storage without an ID is stored under its
\* own key: after k such saves for one database, k records are listed for it,
\* by the file storage and by the S3 storage.
C37_EveryRecordUnderItsOwnKey ==
    (store # <<>> /\ \A k \in 1..Len(sSaved) : sSaved[k].given.id = NoId) =>
        \A n \in 1..Len(StoreDbs) :
            Len(ListOptimizationRecordsByDatabase(store, StoreDbs[n]))
                = Cardinality(SavesFor(StoreDbs[n]))

\* C39: for the file storage, after successful saves with distinct IDs,
\* ListOptimizationRecords returns every saved record, newest first,
\* GetLatestOptimizationRecord the record with the greatest timestamp,
\* ListOptimizationRecordsByDatabase exactly the records of that database, and
\* GetOptimizationRecord the saved record of that ID, or an error for an ID
\* never saved.
C39_FileStorageReads ==
    ( /\ store # <<>>
      /\ store.kind = "file"
      /\ \A j, k \in 1..Len(sSaved) :
            j # k => sSaved[j].stored.id # sSaved[k].stored.id )
    => LET all == ListOptimizationRecords(store)
           latest == GetLatestOptimizationRecord(store)
       IN
       /\ Len(all) = Len(sSaved)
       /\ Elements(all) = StoredRecords
       /\ \A i, j \in 1..Len(all) : i < j => all[i].ts >= all[j].ts
       /\ IF sSaved = <<>> THEN latest = NotFound
          ELSE /\ latest \in StoredRecords
               /\ \A r \in StoredRecords : latest.ts >= r.ts
       /\ \A n \in 1..Len(StoreDbs) :
             LET byDb == ListOptimizationRecordsByDatabase(store, StoreDbs[n]) IN
                /\ Elements(byDb) = {r \in StoredRecords : r.db = StoreDbs[n]}
                /\ Len(byDb) = Cardinality(Elements(byDb))
                /\ \A i, j \in 1..Len(byDb) : i < j => byDb[i].ts >= byDb[j].ts
       /\ \A id \in 1..Uuid(MaxSaves) :
             IF \E r \in StoredRecords : r.id = id
             THEN GetOptimizationRecord(store, id) \in StoredRecords
                  /\ GetOptimizationRecord(store, id).id = id
             ELSE GetOptimizationRecord(store, id) = NotFound

\* three records of two databases, one of them without ID, saved oldest last
C39_Witness ==
    /\ store # <<>>
    /\ store.kind = "file"
    /\ Len(sSaved) = 3
    /\ Cardinality({sSaved[k].stored.id : k \in 1..3}) = 3
    /\ sSaved[1].stored.ts > sSaved[3].stored.ts
    /\ sSaved[1].stored.db # sSaved[2].stored.db
    /\ \E k \in 1..3 : sSaved[k].given.id = NoId

(***************************************************************************)
(* Specifications: each part runs with the other parts at rest            *)
(***************************************************************************)
RunIdle ==
    /\ databases = <<>>
    /\ maxParallel = 0
    /\ compareOnly = FALSE
    /\ enableRollback = FALSE
    /\ mainPc = "idle"
    /\ next = 1
    /\ sem = 0
    /\ wg = 0
    /\ wpc = <<>>
    /\ werr = <<>>
    /\ resultsChan = <<>>
    /\ chanClosed = FALSE
    /\ closerPc = "notStarted"
    /\ results = <<>>
    /\ report = [total |-> 0, successes |-> 0, failures |-> 0]
    /\ crashed = FALSE
    /\ wlog = <<>>
    /\ whist = <<>>

OptIdle ==
    /\ conn = TRUE
    /\ autoName = FALSE
    /\ colls = {}
    /\ indexes = <<>>
    /\ sugg = <<>>
    /\ phase = "idle"
    /\ opIdx = 0
    /\ ret = "nil"
    /\ cmds = <<>>
    /\ trail = <<>>
    /\ confirmed = <<>>
    /\ before = <<>>
    /\ faults = FALSE
    /\ calls = 0
    /\ applyErr = NoErr
    /\ queries = 0

ActIdle ==
    /\ handler = [optimizer |-> FALSE, storage |-> FALSE, history |-> FALSE,
                  threshold |-> DefaultThreshold]
    /\ act = [pc |-> "idle", caller |-> "", type |-> "", sugg |-> <<>>,
              improvement |-> 0, applied |-> <<>>]
    /\ aResult = NoResult
    /\ aCalls = <<>>
    /\ aSaves = <<>>

MsrIdle ==
    /\ measurement = [storage |-> FALSE, actionHandler |-> FALSE]
    /\ mHistory = [set |-> FALSE, before |-> FALSE, after |-> FALSE, opts |-> 0]
    /\ mPc = "idle"
    /\ mCaller = ""
    /\ mRet = "nil"
    /\ mCalls = NoCalls

HistIdle ==
    /\ history = <<>>
    /\ initial = <<>>
    /\ added = <<>>

ValIdle ==
    /\ vSugg = <<>>
    /\ vPc = "idle"
    /\ vResult = <<>>

StoIdle ==
    /\ store = <<>>
    /\ sSaved = <<>>
    /\ sClock = 0
    /\ sUuids = 0

Init == RunInit /\ OptIdle /\ ActIdle /\ MsrIdle /\ HistIdle /\ ValIdle /\ StoIdle

Next ==
    \/ MWgAdd
    \/ MAcquire
    \/ MStartCloser
    \/ Closer
    \/ MReceive
    \/ MReport
    \/ \E i \in Workers : WCollectBefore(i)
    \/ \E i \in Workers : WSaveComparison(i)
    \/ \E i \in Workers : WGenerate(i)
    \/ \E i \in Workers : WApply(i)
    \/ \E i \in Workers : WRollback(i)
    \/ \E i \in Workers : WCollectAfter(i)
    \/ \E i \in Workers : WMeasure(i)
    \/ \E i \in Workers : WSend(i)
    \/ \E i \in Workers : WRelease(i)
    \/ \E i \in Workers : WDone(i)

Spec == Init /\ [][Next]_vars

\* the scheduler keeps running goroutines that can take a step
SpecLive == Init /\ [][Next]_vars /\ WF_vars(Next)

InitOpt == RunIdle /\ OptInit /\ ActIdle /\ MsrIdle /\ HistIdle /\ ValIdle /\ StoIdle

NextOpt ==
    \/ ApplyCall
    \/ ApplyStep
    \/ RollbackCall
    \/ RollbackStep

SpecOpt == InitOpt /\ [][NextOpt]_vars

InitAct == RunIdle /\ OptIdle /\ ActInit /\ MsrIdle /\ HistIdle /\ ValIdle /\ StoIdle

NextAct ==
    \/ SelectStep
    \/ ExecuteAction

SpecAct == InitAct /\ [][NextAct]_vars

InitImp == RunIdle /\ OptIdle /\ ExtractionInit /\ MsrIdle /\ HistIdle /\ ValIdle /\ StoIdle

SpecImp == InitImp /\ [][NextAct]_vars

InitMsr == RunIdle /\ OptIdle /\ ActIdle /\ MsrInit /\ HistIdle /\ ValIdle /\ StoIdle

NextMsr ==
    \/ Measure
    \/ MeasureReturn

SpecMsr == InitMsr /\ [][NextMsr]_vars

InitHist == RunIdle /\ OptIdle /\ ActIdle /\ MsrIdle /\ HistInit /\ ValIdle /\ StoIdle

NextHist ==
    \/ \E s \in SuggestionRefs : AddOptimization(s)
    \/ \E r \in ReportRefs : SetAfterReport(r)

SpecHist == InitHist /\ [][NextHist]_vars

InitVal == RunIdle /\ OptIdle /\ ActIdle /\ MsrIdle /\ HistIdle /\ ValInit /\ StoIdle

NextVal == Validate

SpecVal == InitVal /\ [][NextVal]_vars

InitSto == RunIdle /\ OptIdle /\ ActIdle /\ MsrIdle /\ HistIdle /\ ValIdle /\ StoInit

NextSto == \E rec \in Records : SaveOptimizationRecord(rec)

SpecSto == InitSto /\ [][NextSto]_vars

====
